---- MODULE Spec2Model ----
(***************************************************************************)
(* Device connectivity layer of rtls-link-manager: UDP heartbeat discovery *)
(* (heartbeat codec, registry with TTL pruning, watch and snapshot modes)   *)
(* and the WebSocket command channel with its reply classification.         *)
(*                                                                         *)
(* Time is in milliseconds.  It advances only while a task is suspended in *)
(* an await (socket receive, frame receive); the synchronous code between  *)
(* two awaits takes no time, so the Instant::now() calls of one loop       *)
(* iteration all read the same instant.                                    *)
(***************************************************************************)
EXTENDS Integers, Sequences, FiniteSets, TLC

VARIABLES
    now,            \* the monotonic clock (Instant::now()), ms
    devices,        \* DiscoveryService.devices: ip -> (Device, Instant)
    run_pc,         \* position of DiscoveryService::run: "loop" or "returned"
    it,             \* what the last iteration of run did (observation record)
    hb_in,          \* parse_heartbeat: the datagram and source ip under test
    hb_out,         \* parse_heartbeat: its result, <<>> before the call
    once_pc,        \* position of discover_once: "loop" or "returned"
    once_duration,  \* discover_once: its duration argument, ms
    once_devices,   \* discover_once: its local map ip -> Device
    once_log,       \* every datagram discover_once received: source, bytes, instant
    once_result,    \* discover_once: the returned list, <<>> before the return
    cmd_fn,         \* the command function running: "send_command" or "send_raw"
    cmd_pc,         \* its position: "connect", "send", "read" or "done"
    cmd_frames,     \* every item the frame stream yielded since the command was sent
    cmd_result,     \* what the function returned, Pending before it returns
    cls_command,    \* the command a reply answers
    cls_reply,      \* the reply text under classification
    cls_error,      \* is_error_response(reply), <<>> before the call
    cls_json,       \* parse_json_response(reply), <<>> before the call
    cls_response,   \* parse_command_response(command, reply), <<>> before the call
    retry_max,      \* send_command_with_retry: its max_retries argument
    retry_attempt,  \* the loop variable attempt
    retry_pc,       \* its position: "send", "sleep" or "done"
    retry_log,      \* every send_command call it made: start, end, result
    retry_last_error, \* its local last_error: None or Some(error)
    retry_result,   \* what it returned, Pending before it returns
    batch_fn,       \* the bulk function running: "send_to_all" or "upload_firmware_bulk"
    batch_ips,      \* its ips argument
    batch_ceiling,  \* the concurrency the caller supplied
    batch_fate,     \* what the operation on each device comes to: ip -> "ok" or "failed"
    batch_next,     \* number of elements the stream of ips has yielded
    batch_inflight, \* positions (in ips) of the operations started and not completed
    batch_results,  \* the collected (ip, result) entries
    batch_pc,       \* its position: "client", "run" or "returned"
    batch_log,      \* every start and completion of an operation and a client failure, in order
    call_fn,        \* the function a direct call is made to, "" when there is none
    call_args,      \* the arguments of that call
    call_ret,       \* what the call returned, <<>> before it returns
    conn_fn,        \* the caller of DeviceConnection::send: "send_batch" or "send_device_commands"
    conn_cmds,      \* its commands argument
    conn_k,         \* number of commands whose response has been pushed
    conn_pc,        \* its position: "connect", "send", "read" or "done"
    conn_wire,      \* frames the device has written and ws_stream.next() has not yielded
    conn_dev,       \* the device: commands received, commands answered, other frames written
    conn_log,       \* commands sent, outcomes observed and frames written, in order
    conn_responses, \* the local responses
    conn_result,    \* what the call returned, <<>> before it returns
    shot_fn,        \* a timed command: "send_command" or "send_raw"
    shot_timeout,   \* its response timeout (cmd_timeout / self.timeout), ms
    shot_pc,        \* the await it is at: "connect", "send", "read", or "done"
    shot_since,     \* when that await began
    shot_result,    \* what it returned, Pending before it returns
    sock_open,      \* the sockets bound to the discovery port: who bound each, with which flags
    sock_log,       \* every bind attempted on the port and whether it succeeded
    log_buffers,    \* LogStreamState.log_buffers: device ip -> its buffered log messages, oldest first
    log_sent,       \* how many log messages each device has sent so far
    ota_total,      \* upload_firmware_bulk: the length of its data argument (total_bytes)
    ota_calls,      \* every call made to the OtaProgressHandler, in order
    stream_active,  \* LogStreamState.active_streams: device ip -> bool
    stream_pc,      \* position of LogReceiverService::run: "recv", or "emit" with the lock released
    stream_msg,     \* the log message run is about to emit
    stream_log,     \* every datagram received, event emitted and start/stop command completed, in order
    apply_fn,       \* the function applying parameters: "apply_config_to_device" or "upload_preset_to_device"
    apply_preset,   \* upload_preset_to_device: the preset's type, name and whether it has the data of its type
    apply_params,   \* the (group, name, value) list to write
    apply_pc,       \* its position: "params", "connect", "write", "save" or "done"
    apply_k,        \* number of write commands that succeeded
    apply_sent,     \* every command passed to send_raw, with what send_raw returned, in order
    apply_result,   \* what the function returned, Pending before it returns
    shared_devices, \* AppState.devices of the desktop backend: ip -> Device
    shared_emitted, \* the registry of the desktop DiscoveryService as of its last emitted update, <<>> before the first
    shared_last,    \* the last step of the desktop backend: "run" or the command that ran
    shared_ret,     \* what the last get_devices or get_device returned
    shared_before   \* AppState.devices as it was before the last step

watch_vars == <<devices, run_pc, it>>
parse_vars == <<hb_in, hb_out>>
once_vars == <<once_pc, once_duration, once_devices, once_log, once_result>>
cmd_vars == <<cmd_fn, cmd_pc, cmd_frames, cmd_result>>
cls_vars == <<cls_command, cls_reply, cls_error, cls_json, cls_response>>
retry_vars == <<retry_max, retry_attempt, retry_pc, retry_log, retry_last_error,
                retry_result>>
batch_vars == <<batch_fn, batch_ips, batch_ceiling, batch_fate, batch_next, batch_inflight,
                batch_results, batch_pc, batch_log>>
call_vars == <<call_fn, call_args, call_ret>>
conn_vars == <<conn_fn, conn_cmds, conn_k, conn_pc, conn_wire, conn_dev, conn_log, conn_responses,
               conn_result>>
shot_vars == <<shot_fn, shot_timeout, shot_pc, shot_since, shot_result>>
sock_vars == <<sock_open, sock_log>>
log_vars == <<log_buffers, log_sent>>
ota_vars == <<ota_total, ota_calls>>
stream_vars == <<stream_active, stream_pc, stream_msg, stream_log>>
apply_vars == <<apply_fn, apply_preset, apply_params, apply_pc, apply_k, apply_sent, apply_result>>
shared_vars == <<shared_devices, shared_emitted, shared_last, shared_ret, shared_before>>
ext_vars == <<call_vars, conn_vars, shot_vars, sock_vars, log_vars, ota_vars, stream_vars, apply_vars, shared_vars>>
core_vars == <<now, watch_vars, parse_vars, once_vars, cmd_vars, cls_vars, retry_vars, batch_vars>>
call_rest == <<core_vars, conn_vars, shot_vars,
               sock_vars,
               log_vars,
               ota_vars,
               stream_vars,
               apply_vars,
               shared_vars>>
conn_rest == <<core_vars, call_vars, shot_vars,
               sock_vars,
               log_vars,
               ota_vars,
               stream_vars,
               apply_vars,
               shared_vars>>
shot_rest == <<watch_vars, parse_vars, once_vars, cmd_vars, cls_vars, retry_vars, batch_vars,
               call_vars, conn_vars,
               sock_vars,
               log_vars,
               ota_vars,
               stream_vars,
               apply_vars,
               shared_vars>>
sock_rest == <<watch_vars, parse_vars, once_vars, cmd_vars, cls_vars, retry_vars, batch_vars,
               call_vars, conn_vars, shot_vars,
               log_vars,
               ota_vars,
               stream_vars,
               apply_vars,
               shared_vars>>
log_rest == <<watch_vars, parse_vars, once_vars, cmd_vars, cls_vars, retry_vars, batch_vars,
               call_vars, conn_vars, shot_vars, sock_vars,
               ota_vars,
               stream_vars,
               apply_vars,
               shared_vars>>
stream_rest == <<watch_vars, parse_vars, once_vars, cmd_vars, cls_vars, retry_vars, batch_vars,
               call_vars, conn_vars, shot_vars, sock_vars, ota_vars,
               apply_vars,
               shared_vars>>
apply_rest == <<watch_vars, parse_vars, once_vars, cmd_vars, cls_vars, retry_vars, batch_vars,
               call_vars, conn_vars, shot_vars, sock_vars, log_vars, ota_vars, stream_vars,
               shared_vars>>
shared_rest == <<watch_vars, parse_vars, once_vars, cmd_vars, cls_vars, retry_vars, batch_vars,
               call_vars, conn_vars, shot_vars, sock_vars, log_vars, ota_vars, stream_vars, apply_vars>>
shared_rest_but_watch == <<parse_vars, once_vars, cmd_vars, cls_vars, retry_vars, batch_vars,
               call_vars, conn_vars, shot_vars, sock_vars, log_vars, ota_vars, stream_vars, apply_vars>>
ext_but_ota == <<call_vars, conn_vars, shot_vars, sock_vars, log_vars, stream_vars, apply_vars, shared_vars>>
vars == <<now, watch_vars, parse_vars, once_vars, cmd_vars, cls_vars, retry_vars, batch_vars,
          ext_vars>>

(***************************************************************************)
(* Bounds of the model                                                     *)
(***************************************************************************)
MaxTicks == 14      \* the clock stops at MaxTicks * Tick
MaxKeys == 2        \* keys per generated heartbeat object
MaxRecv == 3        \* datagrams one discover_once call receives
MaxFrags == 2       \* fragments per device reply
MaxFrames == 2      \* binary, ping and pong frames ahead of a reply
MaxParts == 2       \* fragments per classified reply

(***************************************************************************)
(* Program constants                                                       *)
(***************************************************************************)
DEVICE_TTL == 5000
RECEIVE_TIMEOUT == 2000
recv_timeout == 500

\* Granularity of the clock: the shortest duration of the program.
Tick == recv_timeout

(***************************************************************************)
(* Option and Result                                                       *)
(***************************************************************************)
None == <<>>
Some(x) == <<x>>
unwrap_or(o, d) == IF o = None THEN d ELSE o[1]

Ok(x) == [ok |-> TRUE, val |-> x]
Err(e) == [ok |-> FALSE, err |-> e]

(***************************************************************************)
(* Strings are sequences of characters; a character is a one-character     *)
(* string, or the name of a character outside ASCII.                       *)
(***************************************************************************)
Ascii == <<" ", "!", "\"", "#", "$", "%", "&", "'", "(", ")", "*", "+", ",",
           "-", ".", "/", "0", "1", "2", "3", "4", "5", "6", "7", "8", "9",
           ":", ";", "<", "=", ">", "?", "@", "A", "B", "C", "D", "E", "F",
           "G", "H", "I", "J", "K", "L", "M", "N", "O", "P", "Q", "R", "S",
           "T", "U", "V", "W", "X", "Y", "Z", "[", "\\", "]", "^", "_", "GRAVE",
           "a", "b", "c", "d", "e", "f", "g", "h", "i", "j", "k", "l", "m",
           "n", "o", "p", "q", "r", "s", "t", "u", "v", "w", "x", "y", "z",
           "{", "|", "}", "~">>

\* The first UTF-8 byte of a character.
AsciiByte == [c \in {Ascii[i] : i \in 1..Len(Ascii)} |->
                 31 + (CHOOSE i \in 1..Len(Ascii) : Ascii[i] = c)]

LeadByte(c) ==
    CASE c = "\n" -> 10
      [] c = "KELVIN" -> 226        \* U+212A, E2 84 AA
      [] c = "IDOT" -> 196          \* U+0130, C4 B0
      [] c = "COMBDOT" -> 204       \* U+0307, CC 87
      [] OTHER -> AsciiByte[c]

\* a.cmp(&b) on strings: bytewise lexicographic order (a < b).
RECURSIVE StrLess(_, _)
StrLess(a, b) ==
    IF b = <<>> THEN FALSE
    ELSE IF a = <<>> THEN TRUE
    ELSE IF LeadByte(a[1]) # LeadByte(b[1]) THEN LeadByte(a[1]) < LeadByte(b[1])
    ELSE StrLess(Tail(a), Tail(b))

(***************************************************************************)
(* serde_json::Value                                                       *)
(***************************************************************************)
JNull == [t |-> "null"]
JBool(b) == [t |-> "bool", b |-> b]
JNum(n) == [t |-> "num", n |-> n]
JFloat == [t |-> "float"]
JStr(s) == [t |-> "str", s |-> s]
JArr(a) == [t |-> "arr", a |-> a]
JObj(m) == [t |-> "obj", m |-> m]

\* json[key]: Null for a missing key and for a value that is no object.
Index(json, key) ==
    IF json.t = "obj" /\ key \in DOMAIN json.m THEN json.m[key] ELSE JNull

as_str(v) == IF v.t = "str" THEN Some(v.s) ELSE None
as_u64(v) == IF v.t = "num" /\ v.n >= 0 THEN Some(v.n) ELSE None
as_bool(v) == IF v.t = "bool" THEN Some(v.b) ELSE None

\* Option::map(|v| v as u8), Option::map(|v| v as u16)
map_u8(o) == IF o = None THEN None ELSE Some(o[1] % 256)
map_u16(o) == IF o = None THEN None ELSE Some(o[1] % 65536)

\* serde_json::from_slice::<Value>: a datagram is the Value it holds, or no JSON.
from_slice(data) == IF data.wf THEN Ok(data.json) ELSE Err("syntax")

(***************************************************************************)
(* Heartbeat codec                                                         *)
(***************************************************************************)
DeviceRole_from_str(s) ==
    CASE s = "anchor" -> "Anchor"
      [] s = "tag" -> "Tag"
      [] s = "anchor_tdoa" -> "AnchorTdoa"
      [] s = "tag_tdoa" -> "TagTdoa"
      [] s = "calibration" -> "Calibration"
      [] OTHER -> "Unknown"

parse_heartbeat_drop_absent(data, ip, utc) ==
    LET r == from_slice(data) IN
    IF ~r.ok THEN Err(r.err)
    ELSE LET json == r.val IN
      Ok([ip |-> ip,
          id |-> unwrap_or(as_str(Index(json, "id")), ""),
          role |-> DeviceRole_from_str(unwrap_or(as_str(Index(json, "role")), "")),
          mac |-> unwrap_or(as_str(Index(json, "mac")), ""),
          uwb_short |-> unwrap_or(as_str(Index(json, "uwb_short")), "0"),
          mav_sys_id |-> unwrap_or(as_u64(Index(json, "mav_sysid")), 0) % 256,
          firmware |-> unwrap_or(as_str(Index(json, "fw")), ""),
          online |-> Some(TRUE),
          last_seen |-> Some(utc),
          sending_pos |-> Some(unwrap_or(as_bool(Index(json, "sending_pos")), FALSE)),
          anchors_seen |-> Some(unwrap_or(as_u64(Index(json, "anchors_seen")), 0) % 256),
          origin_sent |-> as_bool(Index(json, "origin_sent")),
          rf_enabled |-> as_bool(Index(json, "rf_enabled")),
          rf_healthy |-> as_bool(Index(json, "rf_healthy")),
          avg_rate_c_hz |-> map_u16(as_u64(Index(json, "avg_rate_cHz"))),
          min_rate_c_hz |-> map_u16(as_u64(Index(json, "min_rate_cHz"))),
          max_rate_c_hz |-> map_u16(as_u64(Index(json, "max_rate_cHz"))),
          log_level |-> map_u8(as_u64(Index(json, "log_level"))),
          log_udp_port |-> map_u16(as_u64(Index(json, "log_udp_port"))),
          log_serial_enabled |-> as_bool(Index(json, "log_serial_enabled")),
          log_udp_enabled |-> as_bool(Index(json, "log_udp_enabled"))])

parse_heartbeat(data, ip, utc) ==
    LET r == from_slice(data) IN
    IF ~r.ok THEN Err(r.err)
    ELSE LET json == r.val IN
      Ok([ip |-> ip,
          id |-> unwrap_or(as_str(Index(json, "id")), ""),
          role |-> DeviceRole_from_str(unwrap_or(as_str(Index(json, "role")), "")),
          mac |-> unwrap_or(as_str(Index(json, "mac")), ""),
          uwb_short |-> unwrap_or(as_str(Index(json, "uwb_short")), "0"),
          mav_sys_id |-> unwrap_or(as_u64(Index(json, "mav_sysid")), 0) % 256,
          firmware |-> unwrap_or(as_str(Index(json, "fw")), ""),
          online |-> Some(TRUE),
          last_seen |-> Some(utc),
          sending_pos |-> as_bool(Index(json, "sending_pos")),
          anchors_seen |-> map_u8(as_u64(Index(json, "anchors_seen"))),
          origin_sent |-> as_bool(Index(json, "origin_sent")),
          rf_enabled |-> as_bool(Index(json, "rf_enabled")),
          rf_healthy |-> as_bool(Index(json, "rf_healthy")),
          avg_rate_c_hz |-> map_u16(as_u64(Index(json, "avg_rate_cHz"))),
          min_rate_c_hz |-> map_u16(as_u64(Index(json, "min_rate_cHz"))),
          max_rate_c_hz |-> map_u16(as_u64(Index(json, "max_rate_cHz"))),
          log_level |-> map_u8(as_u64(Index(json, "log_level"))),
          log_udp_port |-> map_u16(as_u64(Index(json, "log_udp_port"))),
          log_serial_enabled |-> as_bool(Index(json, "log_serial_enabled")),
          log_udp_enabled |-> as_bool(Index(json, "log_udp_enabled"))])

\* The heartbeat keys of the optional telemetry fields, and the Device field of each.
OptionalKeys == {"sending_pos", "anchors_seen", "origin_sent", "rf_enabled",
                 "rf_healthy", "avg_rate_cHz", "min_rate_cHz", "max_rate_cHz",
                 "log_level", "log_udp_port", "log_serial_enabled",
                 "log_udp_enabled"}
RequiredKeys == {"id", "role", "mac", "uwb_short", "mav_sysid", "fw"}

FieldOf(dev, key) ==
    CASE key = "sending_pos" -> dev.sending_pos
      [] key = "anchors_seen" -> dev.anchors_seen
      [] key = "origin_sent" -> dev.origin_sent
      [] key = "rf_enabled" -> dev.rf_enabled
      [] key = "rf_healthy" -> dev.rf_healthy
      [] key = "avg_rate_cHz" -> dev.avg_rate_c_hz
      [] key = "min_rate_cHz" -> dev.min_rate_c_hz
      [] key = "max_rate_cHz" -> dev.max_rate_c_hz
      [] key = "log_level" -> dev.log_level
      [] key = "log_udp_port" -> dev.log_udp_port
      [] key = "log_serial_enabled" -> dev.log_serial_enabled
      [] key = "log_udp_enabled" -> dev.log_udp_enabled

(***************************************************************************)
(* Datagrams.  A datagram is the JSON value serde_json reads from it, or   *)
(* bytes that are no JSON document.                                        *)
(***************************************************************************)
Datagram(json) == [wf |-> TRUE, json |-> json]
NotJson == [wf |-> FALSE, json |-> JNull]

AllKeys == RequiredKeys \cup OptionalKeys
SampleValues == {JStr("anchor"), JStr("zz"), JNum(300), JNum(-1), JBool(FALSE),
                 JNull}

RECURSIVE KeySets(_)
KeySets(n) ==
    IF n = 0 THEN {{}}
    ELSE LET smaller == KeySets(n - 1)
         IN smaller \cup {S \cup {k} : S \in smaller, k \in AllKeys}

\* Every heartbeat object with at most MaxKeys keys, the JSON documents that
\* are no object, and a datagram that is no JSON.
Datagrams ==
    {Datagram(JObj(m)) : m \in UNION {[K -> SampleValues] : K \in KeySets(MaxKeys)}}
    \cup {Datagram(JArr(<<>>)), Datagram(JNum(7)), Datagram(JStr("tag")),
          Datagram(JNull), NotJson}

\* The heartbeats the discovery loops receive.
HbFull == Datagram(JObj([k \in {"id", "role", "mav_sysid", "sending_pos", "anchors_seen"} |->
              CASE k = "id" -> JStr("device1")
                [] k = "role" -> JStr("tag")
                [] k = "mav_sysid" -> JNum(1)
                [] k = "sending_pos" -> JBool(TRUE)
                [] k = "anchors_seen" -> JNum(3)]))
HbMinimal == Datagram(JObj([k \in {"id", "role"} |->
              IF k = "id" THEN JStr("test") ELSE JStr("anchor")]))
Heartbeats == {HbFull, HbMinimal, NotJson}

IpA == <<"1", "0", ".", "0", ".", "0", ".", "1", "0">>
IpB == <<"1", "0", ".", "0", ".", "0", ".", "9">>
Ips == {IpA, IpB}

(***************************************************************************)
(* Device registry                                                         *)
(***************************************************************************)
\* HashMap::insert
Insert(map, k, v) == [x \in DOMAIN map \cup {k} |-> IF x = k THEN v ELSE map[x]]

prune_keep_at_ttl(devs, t) ==
    [k \in {x \in DOMAIN devs : t - devs[x].seen <= DEVICE_TTL} |-> devs[k]]

prune_stale_devices(devs, t) ==
    [k \in {x \in DOMAIN devs : t - devs[x].seen < DEVICE_TTL} |-> devs[k]]

\* device_list.sort_by(|a, b| a.ip.cmp(&b.ip)) of a collection of devices
RECURSIVE sort_by_ip(_)
sort_by_ip(S) ==
    IF S = {} THEN <<>>
    ELSE LET m == CHOOSE x \in S : \A y \in S \ {x} : ~StrLess(y.ip, x.ip)
         IN <<m>> \o sort_by_ip(S \ {m})

\* self.devices.values().map(|(dev, _)| dev.clone()).collect(), then sorted
device_list(devs) == sort_by_ip({devs[k].dev : k \in DOMAIN devs})

(***************************************************************************)
(* DiscoveryService::run (watch mode): one action per outcome of the       *)
(* receive; each is a whole loop iteration.                                *)
(***************************************************************************)
\* match recv_result: the upsert of a decoded heartbeat
upsert_merge(devs, recv, parsed, t) ==
    IF recv.kind = "datagram" /\ parsed.ok
    THEN LET ip == parsed.val.ip
             old == devs[ip].dev
             new == parsed.val
             merged == [new EXCEPT
                 !.sending_pos = IF new.sending_pos = None THEN old.sending_pos ELSE @,
                 !.anchors_seen = IF new.anchors_seen = None THEN old.anchors_seen ELSE @]
         IN Insert(devs, ip, [dev |-> IF ip \in DOMAIN devs THEN merged ELSE new,
                              seen |-> t])
    ELSE devs

upsert(devs, recv, parsed, t) ==
    IF recv.kind = "datagram" /\ parsed.ok
    THEN Insert(devs, parsed.val.ip, [dev |-> parsed.val, seen |-> t])
    ELSE devs

\* if before_prune != after_prune || matches!(recv_result, Ok(Ok(_)))
should_notify_on_datagram_only(before_prune, after_prune, recv) ==
    recv.kind = "datagram"

should_notify_always(before_prune, after_prune, recv) == TRUE

should_notify(before_prune, after_prune, recv) ==
    before_prune # after_prune \/ recv.kind = "datagram"

\* The loop has no break and no return: whatever was received, it goes on.
run_stops_on_error(recv, parsed) ==
    IF recv.kind = "error" \/ (recv.kind = "datagram" /\ ~parsed.ok)
    THEN "returned" ELSE "loop"

run_next_pc(recv, parsed) == "loop"

NotParsed == Err("no datagram")

NoIteration ==
    [recv |-> "none", src |-> <<>>, data |-> NotJson,
     parsed |-> NotParsed, before |-> <<>>, after_upsert |-> <<>>,
     before_prune |-> 0, after_prune |-> 0, update |-> None]

RunStep(recv, elapsed) ==
    LET t == now + elapsed
        parsed == IF recv.kind = "datagram"
                  THEN parse_heartbeat(recv.data, recv.src, t) ELSE NotParsed
        after_upsert == upsert(devices, recv, parsed, t)
        before_prune == Cardinality(DOMAIN after_upsert)
        pruned == prune_stale_devices(after_upsert, t)
        after_prune == Cardinality(DOMAIN pruned)
        pc == run_next_pc(recv, parsed)
    IN /\ run_pc = "loop"
       /\ t <= MaxTicks * Tick
       /\ now' = t
       /\ devices' = IF pc = "loop" THEN pruned ELSE after_upsert
       /\ run_pc' = pc
       /\ it' = [recv |-> recv.kind, src |-> recv.src, data |-> recv.data,
                 parsed |-> parsed, before |-> devices,
                 after_upsert |-> after_upsert,
                 before_prune |-> before_prune, after_prune |-> after_prune,
                 update |-> IF pc = "loop" /\ should_notify(before_prune, after_prune, recv)
                            THEN Some(device_list(pruned)) ELSE None]

\* An iteration of the core service: nothing else changes.
RunIteration(recv, elapsed) ==
    /\ RunStep(recv, elapsed)
    /\ UNCHANGED <<parse_vars, once_vars, cmd_vars, cls_vars, retry_vars, batch_vars,
                   ext_vars>>

\* The delays after which a receive can complete: at once, halfway to the
\* timeout, or as the timeout expires.
Delays(limit) == {0, limit \div 2, limit}

\* Ok(Ok((len, addr))): a datagram arrived before the timeout
RunRecvDatagram ==
    \E d \in Delays(RECEIVE_TIMEOUT), ip \in Ips, data \in Heartbeats :
        RunIteration([kind |-> "datagram", src |-> ip, data |-> data], d)

\* Ok(Err(e)): the socket reported an error
RunRecvError ==
    \E d \in Delays(RECEIVE_TIMEOUT) :
        RunIteration([kind |-> "error", src |-> <<>>, data |-> NotJson], d)

\* Err(_): RECEIVE_TIMEOUT elapsed with no datagram
RunRecvTimeout ==
    RunIteration([kind |-> "timeout", src |-> <<>>, data |-> NotJson], RECEIVE_TIMEOUT)

WatchIdle == devices = <<>> /\ run_pc = "loop" /\ it = NoIteration
ParseIdle == hb_in = [data |-> NotJson, ip |-> IpA] /\ hb_out = None
OnceIdle ==
    /\ once_pc = "loop"
    /\ once_duration = 0
    /\ once_devices = <<>>
    /\ once_log = <<>>
    /\ once_result = None

CmdIdle ==
    /\ cmd_fn = "send_command"
    /\ cmd_pc = "done"
    /\ cmd_frames = <<>>
    /\ cmd_result = [kind |-> "pending", text |-> <<>>, what |-> ""]

ClsIdle ==
    /\ cls_command = <<>>
    /\ cls_reply = <<>>
    /\ cls_error = None
    /\ cls_json = None
    /\ cls_response = None

RetryIdle ==
    /\ retry_max = 0
    /\ retry_attempt = 0
    /\ retry_pc = "done"
    /\ retry_log = <<>>
    /\ retry_last_error = <<>>
    /\ retry_result = [kind |-> "pending", text |-> <<>>, what |-> ""]

BatchIdle ==
    /\ batch_fn = "send_to_all"
    /\ batch_ips = <<>>
    /\ batch_ceiling = 1
    /\ batch_fate = <<>>
    /\ batch_next = 0
    /\ batch_inflight = {}
    /\ batch_results = <<>>
    /\ batch_pc = "returned"
    /\ batch_log = <<>>

CallIdle ==
    /\ call_fn = ""
    /\ call_args = <<>>
    /\ call_ret = <<>>

ConnIdle ==
    /\ conn_fn = "send_batch"
    /\ conn_cmds = <<>>
    /\ conn_k = 0
    /\ conn_pc = "done"
    /\ conn_wire = <<>>
    /\ conn_dev = [got |-> 0, answered |-> 0, other |-> 0]
    /\ conn_log = <<>>
    /\ conn_responses = <<>>
    /\ conn_result = <<>>

ShotIdle ==
    /\ shot_fn = "send_command"
    /\ shot_timeout = 0
    /\ shot_pc = "done"
    /\ shot_since = 0
    /\ shot_result = [kind |-> "pending", text |-> <<>>, what |-> ""]

SockIdle ==
    /\ sock_open = <<>>
    /\ sock_log = <<>>

LogIdle ==
    /\ log_buffers = <<>>
    /\ log_sent = <<>>

OtaIdle ==
    /\ ota_total = 0
    /\ ota_calls = <<>>

StreamIdle ==
    /\ stream_active = <<>>
    /\ stream_pc = "recv"
    /\ stream_msg = <<>>
    /\ stream_log = <<>>

ApplyIdle ==
    /\ apply_fn = ""
    /\ apply_preset = <<>>
    /\ apply_params = <<>>
    /\ apply_pc = "done"
    /\ apply_k = 0
    /\ apply_sent = <<>>
    /\ apply_result = [kind |-> "pending", text |-> <<>>, what |-> ""]

SharedIdle ==
    /\ shared_devices = <<>>
    /\ shared_emitted = <<>>
    /\ shared_last = "none"
    /\ shared_ret = <<>>
    /\ shared_before = <<>>

\* Every group of this list but g is idle.
ExtIdleBut(g) ==
    /\ g = "call" \/ CallIdle
    /\ g = "conn" \/ ConnIdle
    /\ g = "shot" \/ ShotIdle
    /\ g = "sock" \/ SockIdle
    /\ g = "log" \/ LogIdle
    /\ g = "ota" \/ OtaIdle
    /\ g = "stream" \/ StreamIdle
    /\ g = "apply" \/ ApplyIdle
    /\ g = "shared" \/ SharedIdle

ExtIdle == ExtIdleBut("")

InitWatch ==
    now = 0 /\ WatchIdle /\ ParseIdle /\ OnceIdle /\ CmdIdle /\ ClsIdle /\ RetryIdle /\ BatchIdle /\ ExtIdle

NextWatch == RunRecvDatagram \/ RunRecvError \/ RunRecvTimeout

SpecWatch == InitWatch /\ [][NextWatch]_vars

(***************************************************************************)
(* parse_heartbeat on every datagram of Datagrams                          *)
(***************************************************************************)
ParseHeartbeat ==
    /\ hb_out = None
    /\ hb_out' = Some(parse_heartbeat(hb_in.data, hb_in.ip, now))
    /\ UNCHANGED <<now, watch_vars, hb_in, once_vars, cmd_vars, cls_vars, retry_vars, batch_vars,
                   ext_vars>>

InitParse ==
    /\ now = 0
    /\ WatchIdle
    /\ hb_in \in [data : Datagrams, ip : Ips]
    /\ hb_out = None
    /\ OnceIdle
    /\ CmdIdle
    /\ ClsIdle
    /\ RetryIdle
    /\ BatchIdle /\ ExtIdle

NextParse == ParseHeartbeat

SpecParse == InitParse /\ [][NextParse]_vars

(***************************************************************************)
(* DiscoveryService::discover_once (snapshot mode).  start is instant 0, so *)
(* start.elapsed() is now.  One action per outcome of the receive, each a   *)
(* whole loop iteration, and one for the break and the return.              *)
(***************************************************************************)
\* devices.insert(device.ip.clone(), device)
once_insert_if_absent(devs, parsed) ==
    IF parsed.ok /\ parsed.val.ip \notin DOMAIN devs
    THEN Insert(devs, parsed.val.ip, parsed.val) ELSE devs

once_insert(devs, parsed) ==
    IF parsed.ok THEN Insert(devs, parsed.val.ip, parsed.val) ELSE devs

OnceIteration(recv, elapsed) ==
    LET t == now + elapsed
        parsed == IF recv.kind = "datagram"
                  THEN parse_heartbeat(recv.data, recv.src, t) ELSE NotParsed
    IN /\ once_pc = "loop"
       /\ ~(now >= once_duration)
       /\ now' = t
       /\ once_devices' = once_insert(once_devices, parsed)
       /\ once_log' = IF recv.kind = "datagram"
                      THEN Append(once_log, [src |-> recv.src, data |-> recv.data, at |-> t])
                      ELSE once_log
       /\ UNCHANGED <<once_pc, once_duration, once_result, watch_vars, parse_vars, cmd_vars,
                      cls_vars, retry_vars, batch_vars,
                   ext_vars>>

\* Ok(Ok((len, addr)))
OnceRecvDatagram ==
    /\ Len(once_log) < MaxRecv
    /\ \E d \in Delays(recv_timeout), ip \in Ips, data \in Heartbeats :
          OnceIteration([kind |-> "datagram", src |-> ip, data |-> data], d)

\* Ok(Err(e))
OnceRecvError ==
    \E d \in Delays(recv_timeout) :
        OnceIteration([kind |-> "error", src |-> <<>>, data |-> NotJson], d)

\* Err(_): recv_timeout elapsed with no datagram
OnceRecvTimeout ==
    OnceIteration([kind |-> "timeout", src |-> <<>>, data |-> NotJson], recv_timeout)

\* if start.elapsed() >= duration { break; } and the sorted list is returned
OnceReturn ==
    /\ once_pc = "loop"
    /\ now >= once_duration
    /\ once_pc' = "returned"
    /\ once_result' = Some(sort_by_ip({once_devices[k] : k \in DOMAIN once_devices}))
    /\ UNCHANGED <<now, once_duration, once_devices, once_log, watch_vars, parse_vars,
                   cmd_vars, cls_vars, retry_vars, batch_vars,
                   ext_vars>>

\* The durations discover_once is called with.
Durations == {0, recv_timeout, 2 * recv_timeout + recv_timeout \div 2}

InitOnce ==
    /\ now = 0
    /\ WatchIdle
    /\ ParseIdle
    /\ once_pc = "loop"
    /\ once_duration \in Durations
    /\ once_devices = <<>>
    /\ once_log = <<>>
    /\ once_result = None
    /\ CmdIdle
    /\ ClsIdle
    /\ RetryIdle
    /\ BatchIdle /\ ExtIdle

NextOnce == OnceRecvDatagram \/ OnceRecvError \/ OnceRecvTimeout \/ OnceReturn

SpecOnce == InitOnce /\ [][NextOnce]_vars

(***************************************************************************)
(* str: to_lowercase, contains, find, slicing by byte offset, trim.        *)
(* Offsets are byte offsets of the UTF-8 encoding, as in Rust.             *)
(***************************************************************************)
\* The number of UTF-8 bytes of a character.
Width(c) ==
    CASE c = "KELVIN" -> 3
      [] c = "IDOT" -> 2
      [] c = "COMBDOT" -> 2
      [] OTHER -> 1

RECURSIVE ByteLen(_)
ByteLen(s) == IF s = <<>> THEN 0 ELSE Width(s[1]) + ByteLen(Tail(s))

UpperCase == {"A", "B", "C", "D", "E", "F", "G", "H", "I", "J", "K", "L", "M",
              "N", "O", "P", "Q", "R", "S", "T", "U", "V", "W", "X", "Y", "Z"}

\* char::to_lowercase: the Kelvin sign becomes k, the dotted capital I becomes
\* i followed by the combining dot above.
LowerChar(c) ==
    CASE c \in UpperCase -> <<Ascii[AsciiByte[c] - 31 + 32]>>
      [] c = "KELVIN" -> <<"k">>
      [] c = "IDOT" -> <<"i", "COMBDOT">>
      [] OTHER -> <<c>>

RECURSIVE to_lowercase(_)
to_lowercase(s) == IF s = <<>> THEN <<>> ELSE LowerChar(s[1]) \o to_lowercase(Tail(s))

StartsWith(s, p) == Len(s) >= Len(p) /\ SubSeq(s, 1, Len(p)) = p
Drop(s, n) == SubSeq(s, n + 1, Len(s))

\* str::find: the byte offset of the first match
find(s, pat) ==
    LET hits == {i \in 0..Len(s) : StartsWith(Drop(s, i), pat)}
    IN IF hits = {} THEN None
       ELSE LET i == CHOOSE h \in hits : \A g \in hits : h <= g
            IN Some(ByteLen(SubSeq(s, 1, i)))

contains(s, pat) == find(s, pat) # None

\* &s[off..]: panics when off is past the end or inside a character
slice_from(s, off) ==
    LET cuts == {i \in 0..Len(s) : ByteLen(SubSeq(s, 1, i)) = off}
    IN IF cuts = {} THEN [ok |-> FALSE, val |-> <<>>]
       ELSE [ok |-> TRUE, val |-> Drop(s, CHOOSE i \in cuts : TRUE)]

IsWs(c) == c \in {" ", "\n"}

RECURSIVE trim_start(_)
trim_start(s) == IF s # <<>> /\ IsWs(s[1]) THEN trim_start(Tail(s)) ELSE s

RECURSIVE trim_end(_)
trim_end(s) ==
    IF s # <<>> /\ IsWs(s[Len(s)]) THEN trim_end(SubSeq(s, 1, Len(s) - 1)) ELSE s

trim(s) == trim_end(trim_start(s))

(***************************************************************************)
(* serde_json::from_str::<Value> on a string.  The replies of the model    *)
(* hold no backslash and no control character other than the line feed.    *)
(***************************************************************************)
Digits == <<"0", "1", "2", "3", "4", "5", "6", "7", "8", "9">>
IsDigit(c) == \E i \in 1..10 : Digits[i] = c
DigitVal(c) == (CHOOSE i \in 1..10 : Digits[i] = c) - 1

PFail == [ok |-> FALSE, val |-> JNull, rest |-> <<>>]
POk(v, rest) == [ok |-> TRUE, val |-> v, rest |-> rest]

\* The characters of a string literal after its opening quote.
RECURSIVE ScanString(_, _)
ScanString(s, acc) ==
    IF s = <<>> THEN PFail
    ELSE IF s[1] = "\"" THEN [ok |-> TRUE, val |-> acc, rest |-> Tail(s)]
    ELSE IF s[1] = "\\" \/ s[1] = "\n" THEN PFail
    ELSE ScanString(Tail(s), Append(acc, s[1]))

RECURSIVE ScanDigits(_, _)
ScanDigits(s, n) ==
    IF s # <<>> /\ IsDigit(s[1]) THEN ScanDigits(Tail(s), 10 * n + DigitVal(s[1]))
    ELSE [n |-> n, rest |-> s]

\* The fraction of a number, if there is one: . [0-9]+
ScanFrac(s) ==
    IF s = <<>> \/ s[1] # "." THEN [ok |-> TRUE, seen |-> FALSE, rest |-> s]
    ELSE IF Len(s) >= 2 /\ IsDigit(s[2])
    THEN [ok |-> TRUE, seen |-> TRUE, rest |-> ScanDigits(Tail(s), 0).rest]
    ELSE [ok |-> FALSE, seen |-> TRUE, rest |-> s]

\* The exponent of a number, if there is one: [eE] [+-]? [0-9]+
ScanExp(s) ==
    IF s = <<>> \/ s[1] \notin {"e", "E"} THEN [ok |-> TRUE, seen |-> FALSE, rest |-> s]
    ELSE LET d == IF Len(s) >= 2 /\ s[2] \in {"+", "-"} THEN Drop(s, 2) ELSE Tail(s)
         IN IF d # <<>> /\ IsDigit(d[1])
            THEN [ok |-> TRUE, seen |-> TRUE, rest |-> ScanDigits(d, 0).rest]
            ELSE [ok |-> FALSE, seen |-> TRUE, rest |-> s]

\* The value of a number from its sign, integer part, fraction and exponent.
NumberOf(neg, int, frac, exp) ==
    IF ~frac.ok \/ ~exp.ok THEN PFail
    ELSE IF frac.seen \/ exp.seen \/ (neg /\ int.n = 0) THEN POk(JFloat, exp.rest)
    ELSE POk(JNum(IF neg THEN 0 - int.n ELSE int.n), exp.rest)

ScanAfterFrac(neg, int, frac) == NumberOf(neg, int, frac, ScanExp(frac.rest))
ScanAfterInt(neg, int) == ScanAfterFrac(neg, int, ScanFrac(int.rest))

\* The digits of a number after its sign: 0 | [1-9][0-9]*, then the rest.
ScanUnsigned(neg, s) ==
    IF s = <<>> \/ ~IsDigit(s[1]) THEN PFail
    ELSE IF s[1] = "0" THEN ScanAfterInt(neg, [n |-> 0, rest |-> Tail(s)])
    ELSE ScanAfterInt(neg, ScanDigits(s, 0))

\* A number: -? (0 | [1-9][0-9]*) (. [0-9]+)? ([eE] [+-]? [0-9]+)?
ScanNumber(s) ==
    IF s[1] = "-" THEN ScanUnsigned(TRUE, Tail(s)) ELSE ScanUnsigned(FALSE, s)

\* A value that is neither an object nor an array.
StringValue(r) == IF r.ok THEN POk(JStr(r.val), r.rest) ELSE PFail

ScanScalar(s) ==
    IF s[1] = "\"" THEN StringValue(ScanString(Tail(s), <<>>))
    ELSE IF StartsWith(s, <<"t", "r", "u", "e">>) THEN POk(JBool(TRUE), Drop(s, 4))
    ELSE IF StartsWith(s, <<"f", "a", "l", "s", "e">>) THEN POk(JBool(FALSE), Drop(s, 5))
    ELSE IF StartsWith(s, <<"n", "u", "l", "l">>) THEN POk(JNull, Drop(s, 4))
    ELSE IF s[1] = "-" \/ IsDigit(s[1]) THEN ScanNumber(s)
    ELSE PFail

\* The parser as a pushdown machine.  mode: "value" (a value is expected),
\* "key" (a member of the object on top of the stack is expected), "reduce"
\* (val has been read and goes to the container on top of the stack), "done",
\* "fail".  A frame of the stack is an open object (its members m and the key
\* being read) or an open array (its elements a).
PState(mode, s, stack, val) == [mode |-> mode, s |-> s, stack |-> stack, val |-> val]
PFrame(t, m, key, a) == [t |-> t, m |-> m, key |-> key, a |-> a]
PStop == PState("fail", <<>>, <<>>, JNull)

ParseOpened(c, s1, stack) ==
    IF c = "{"
    THEN IF s1 # <<>> /\ s1[1] = "}" THEN PState("reduce", Tail(s1), stack, JObj(<<>>))
         ELSE PState("key", s1, <<PFrame("obj", <<>>, <<>>, <<>>)>> \o stack, JNull)
    ELSE IF s1 # <<>> /\ s1[1] = "]" THEN PState("reduce", Tail(s1), stack, JArr(<<>>))
         ELSE PState("value", s1, <<PFrame("arr", <<>>, <<>>, <<>>)>> \o stack, JNull)

ParseOpen(s, stack) == ParseOpened(s[1], trim_start(Tail(s)), stack)

ParseColon(key, s, stack) ==
    IF s = <<>> \/ s[1] # ":" THEN PStop
    ELSE PState("value", Tail(s), <<PFrame("obj", stack[1].m, key, <<>>)>> \o Tail(stack), JNull)

ParseKeyed(k, stack) == IF ~k.ok THEN PStop ELSE ParseColon(k.val, trim_start(k.rest), stack)

ParseKey(s, stack) ==
    IF s = <<>> \/ s[1] # "\"" THEN PStop
    ELSE ParseKeyed(ScanString(Tail(s), <<>>), stack)

ParseReduce(s, stack, val) ==
    IF stack = <<>> THEN PState("done", s, stack, val)
    ELSE IF s = <<>> THEN PStop
    ELSE IF stack[1].t = "obj" THEN
        LET m2 == Insert(stack[1].m, stack[1].key, val) IN
        IF s[1] = "," THEN PState("key", Tail(s), <<PFrame("obj", m2, <<>>, <<>>)>> \o Tail(stack), JNull)
        ELSE IF s[1] = "}" THEN PState("reduce", Tail(s), Tail(stack), JObj(m2))
        ELSE PStop
    ELSE
        LET a2 == Append(stack[1].a, val) IN
        IF s[1] = "," THEN PState("value", Tail(s), <<PFrame("arr", <<>>, <<>>, a2)>> \o Tail(stack), JNull)
        ELSE IF s[1] = "]" THEN PState("reduce", Tail(s), Tail(stack), JArr(a2))
        ELSE PStop

ParseScalar(r, stack) == IF r.ok THEN PState("reduce", r.rest, stack, r.val) ELSE PStop

\* One move of the machine; s starts at the next character that is no white space.
ParseMove(mode, s, stack, val) ==
    IF mode = "reduce" THEN ParseReduce(s, stack, val)
    ELSE IF mode = "key" THEN ParseKey(s, stack)
    ELSE IF s = <<>> THEN PStop
    ELSE IF s[1] \in {"{", "["} THEN ParseOpen(s, stack)
    ELSE ParseScalar(ScanScalar(s), stack)

ParseStep(mode, s, stack, val) ==
    IF mode = "reduce" /\ stack = <<>> THEN PState("done", s, stack, val)
    ELSE ParseMove(mode, trim_start(s), stack, val)

RECURSIVE Parse(_)
Parse(st) ==
    IF st.mode \in {"done", "fail"} THEN st
    ELSE Parse(ParseStep(st.mode, st.s, st.stack, st.val))

\* One value from the front of s, and what follows it.
ParseResult(st) == IF st.mode = "done" THEN POk(st.val, st.s) ELSE PFail
ParseValue(s) == ParseResult(Parse(PState("value", s, <<>>, JNull)))

\* The value is the whole input: only white space may follow it.
WholeInput(r) == IF r.ok /\ trim_start(r.rest) = <<>> THEN Ok(r.val) ELSE Err("syntax")

from_str(s) == WholeInput(ParseValue(s))

\* Value::get(key): the member of an object, None for anything else
get(json, key) ==
    IF json.t = "obj" /\ key \in DOMAIN json.m THEN Some(json.m[key]) ELSE None

(***************************************************************************)
(* Reply classification                                                    *)
(***************************************************************************)
\* The outcome of is_error_response: its Option<String>, or a panic.
Classified(o) == [panic |-> FALSE, res |-> o]
Panics == [panic |-> TRUE, res |-> None]

\* The earliest of the first '{' and the first '['
json_start(response) ==
    LET obj_start == find(response, <<"{">>)
        arr_start == find(response, <<"[">>)
    IN IF obj_start # None /\ arr_start # None
       THEN Some(IF obj_start[1] < arr_start[1] THEN obj_start[1] ELSE arr_start[1])
       ELSE IF obj_start # None THEN obj_start
       ELSE arr_start

json_error_of_success_only(success, msg, error) ==
    IF success # None /\ success[1] = JBool(FALSE)
    THEN IF msg # None
         THEN Classified(Some(unwrap_or(as_str(msg[1]), <<"U", "n", "k", "n", "o", "w", "n", " ", "e", "r", "r", "o", "r">>)))
         ELSE Classified(Some(<<"C", "o", "m", "m", "a", "n", "d", " ", "f", "a", "i", "l", "e", "d">>))
    ELSE Classified(None)

\* Rule 3: an embedded JSON payload with "success": false or an "error" member.
json_error_of(success, msg, error) ==
    IF success # None /\ success[1] = JBool(FALSE)
    THEN IF msg # None
         THEN Classified(Some(unwrap_or(as_str(msg[1]), <<"U", "n", "k", "n", "o", "w", "n", " ", "e", "r", "r", "o", "r">>)))
         ELSE Classified(Some(<<"C", "o", "m", "m", "a", "n", "d", " ", "f", "a", "i", "l", "e", "d">>))
    ELSE IF error # None
    THEN Classified(Some(unwrap_or(as_str(error[1]), <<"U", "n", "k", "n", "o", "w", "n", " ", "e", "r", "r", "o", "r">>)))
    ELSE Classified(None)

or_else(a, b) == IF a # None THEN a ELSE b

json_error(parsed) ==
    IF ~parsed.ok THEN Classified(None)
    ELSE json_error_of(get(parsed.val, <<"s", "u", "c", "c", "e", "s", "s">>),
                       or_else(get(parsed.val, <<"m", "e", "s", "s", "a", "g", "e">>),
                               get(parsed.val, <<"e", "r", "r", "o", "r">>)),
                       get(parsed.val, <<"e", "r", "r", "o", "r">>))

looks_like_text_error_despite_success(lower) ==
    \/ contains(lower, <<"e", "r", "r", "o", "r">>)
    \/ contains(lower, <<"f", "a", "i", "l">>)
    \/ contains(lower, <<"i", "n", "v", "a", "l", "i", "d">>)
    \/ contains(lower, <<"n", "o", "t", " ", "f", "o", "u", "n", "d">>)

\* Rule 2: an error keyword and no "success" in the lowercased reply.
looks_like_text_error(lower) ==
    /\ \/ contains(lower, <<"e", "r", "r", "o", "r">>)
       \/ contains(lower, <<"f", "a", "i", "l">>)
       \/ contains(lower, <<"i", "n", "v", "a", "l", "i", "d">>)
       \/ contains(lower, <<"n", "o", "t", " ", "f", "o", "u", "n", "d">>)
    /\ ~contains(lower, <<"s", "u", "c", "c", "e", "s", "s">>)

is_error_response(response) ==
    LET lower == to_lowercase(response)
        start == json_start(response)
    IN IF contains(lower, <<"e", "r", "r", "o", "r", ":">>)
       THEN LET pos == find(lower, <<"e", "r", "r", "o", "r", ":">>)[1]
                tail == slice_from(response, pos + 6)
            IN IF tail.ok THEN Classified(Some(trim(tail.val))) ELSE Panics
       ELSE IF looks_like_text_error(lower) THEN Classified(Some(trim(response)))
       ELSE IF start = None THEN Classified(None)
       ELSE json_error(from_str(slice_from(response, start[1]).val))

(***************************************************************************)
(* Command channel: send_command (one-shot) and DeviceConnection::send_raw *)
(* (on an open connection).  One action per await: connect, send, each     *)
(* item the frame stream yields, and the expiry of the response timeout.   *)
(***************************************************************************)
\* The fragments device replies are made of.
Fragments == {<<"E", "r", "r", "o", "r", ":">>, <<" ", "b", "a", "d">>, <<"O", "K">>, <<"s", "u", "c", "c", "e", "s", "s">>, <<"f", "a", "i", "l">>,
              <<"KELVIN">>, <<"IDOT">>, <<"{", "\"", "s", "u", "c", "c", "e", "s", "s", "\"", ":", "f", "a", "l", "s", "e", "}">>, <<" ">>}

RECURSIVE Concats(_)
Concats(n) ==
    IF n = 0 THEN {<<>>}
    ELSE LET shorter == Concats(n - 1)
         IN shorter \cup {r \o f : r \in shorter, f \in Fragments}

\* Every reply of at most MaxFrags fragments.
Replies == Concats(MaxFrags)

\* What ws_stream.next() yields: Some(Ok(Message)), Some(Err(e)) or None.
Frame(t, text) == [t |-> t, text |-> text]
ControlFrames == {Frame("binary", <<"O", "K">>), Frame("ping", <<>>), Frame("pong", <<>>)}
FinalFrames == {Frame("text", r) : r \in Replies}
                   \cup {Frame("close", <<>>), Frame("error", <<>>), Frame("end", <<>>)}

\* Result<String, CoreError>, or the panic of the task
Result(kind, text, what) == [kind |-> kind, text |-> text, what |-> what]
Pending == Result("pending", <<>>, "")

\* match msg in the receive loop; the loop also ends when the stream does
frame_step_break_on_control(msg) ==
    CASE msg.t = "text" -> "return"
      [] msg.t = "error" -> "error"
      [] OTHER -> "break"

frame_step(msg) ==
    CASE msg.t = "text" -> "return"
      [] msg.t = "close" -> "break"
      [] msg.t = "end" -> "break"
      [] msg.t = "error" -> "error"
      [] OTHER -> "continue"

\* if let Some(error_msg) = is_error_response(&response) { return Err(CommandFailed) }
check_reply_accepts_all(response) == Result("Ok", response, "")

reply_result(response, c) ==
    IF c.panic THEN Result("panic", <<>>, "")
    ELSE IF c.res # None THEN Result("CommandFailed", c.res[1], "")
    ELSE Result("Ok", response, "")

check_reply(response) == reply_result(response, is_error_response(response))

Finish(r) == cmd_pc' = "done" /\ cmd_result' = r

\* timeout(connect_timeout, connect_async(&url))
CmdConnect ==
    /\ cmd_pc = "connect"
    /\ \E outcome \in {"ok", "timeout", "failed"} :
          CASE outcome = "ok" -> cmd_pc' = "send" /\ UNCHANGED cmd_result
            [] outcome = "timeout" -> Finish(Result("Other", <<>>, "Connection timeout"))
            [] outcome = "failed" -> Finish(Result("Other", <<>>, "WebSocket connect failed"))
    /\ UNCHANGED <<cmd_fn, cmd_frames, now, watch_vars, parse_vars, once_vars, cls_vars,
                   retry_vars, batch_vars,
                   ext_vars>>

\* write.send(Message::Text(command))
CmdSend ==
    /\ cmd_pc = "send"
    /\ \E outcome \in {"ok", "error"} :
          IF outcome = "ok" THEN cmd_pc' = "read" /\ UNCHANGED cmd_result
          ELSE Finish(Result("Other", <<>>, "WebSocket send error"))
    /\ UNCHANGED <<cmd_fn, cmd_frames, now, watch_vars, parse_vars, once_vars, cls_vars,
                   retry_vars, batch_vars,
                   ext_vars>>

\* while let Some(msg) = read.next().await { match msg { ... } }
CmdRecv ==
    /\ cmd_pc = "read"
    /\ \E msg \in ControlFrames \cup FinalFrames :
          LET step == frame_step(msg) IN
          /\ msg \in ControlFrames => Len(cmd_frames) < MaxFrames
          /\ cmd_frames' = Append(cmd_frames, msg)
          /\ CASE step = "return" -> Finish(check_reply(msg.text))
               [] step = "break" ->
                    Finish(Result("InvalidResponse", <<>>, "No response received"))
               [] step = "error" -> Finish(Result("Other", <<>>, "WebSocket error"))
               [] OTHER -> UNCHANGED <<cmd_pc, cmd_result>>
    /\ UNCHANGED <<cmd_fn, now, watch_vars, parse_vars, once_vars, cls_vars, retry_vars,
                   batch_vars,
                   ext_vars>>

\* the response timeout expires while the loop waits for a frame
CmdTimeout ==
    /\ cmd_pc = "read"
    /\ Finish(Result("Other", <<>>, "timed out"))
    /\ UNCHANGED <<cmd_fn, cmd_frames, now, watch_vars, parse_vars, once_vars, cls_vars,
                   retry_vars, batch_vars,
                   ext_vars>>

InitCmd ==
    /\ now = 0
    /\ WatchIdle
    /\ ParseIdle
    /\ OnceIdle
    /\ cmd_fn \in {"send_command", "send_raw"}
    /\ cmd_pc = IF cmd_fn = "send_command" THEN "connect" ELSE "send"
    /\ cmd_frames = <<>>
    /\ cmd_result = Pending
    /\ ClsIdle
    /\ RetryIdle
    /\ BatchIdle /\ ExtIdle

NextCmd == CmdConnect \/ CmdSend \/ CmdRecv \/ CmdTimeout

SpecCmd == InitCmd /\ [][NextCmd]_vars

(***************************************************************************)
(* Reply processing: is_error_response, parse_json_response and            *)
(* parse_command_response, each applied to every reply of ClsReplies.      *)
(***************************************************************************)
JSON_COMMANDS ==
    {<<"b", "a", "c", "k", "u", "p", "-", "c", "o", "n", "f", "i", "g">>, <<"l", "i", "s", "t", "-", "c", "o", "n", "f", "i", "g", "s">>, <<"s", "a", "v", "e", "-", "c", "o", "n", "f", "i", "g", "-", "a", "s">>, <<"l", "o", "a", "d", "-", "c", "o", "n", "f", "i", "g", "-", "n", "a", "m", "e", "d">>,
     <<"r", "e", "a", "d", "-", "c", "o", "n", "f", "i", "g", "-", "n", "a", "m", "e", "d">>, <<"d", "e", "l", "e", "t", "e", "-", "c", "o", "n", "f", "i", "g">>, <<"t", "o", "g", "g", "l", "e", "-", "l", "e", "d", "2">>, <<"g", "e", "t", "-", "l", "e", "d", "2", "-", "s", "t", "a", "t", "e">>,
     <<"f", "i", "r", "m", "w", "a", "r", "e", "-", "i", "n", "f", "o">>}

is_json_command(cmd) == \E c \in JSON_COMMANDS : StartsWith(cmd, c)

parse_json_start_object_first(obj_start, arr_start) ==
    IF obj_start # None THEN obj_start ELSE arr_start

\* match (obj_start, arr_start) of parse_json_response
parse_json_start(obj_start, arr_start) ==
    IF obj_start # None /\ arr_start # None
    THEN Some(IF obj_start[1] < arr_start[1] THEN obj_start[1] ELSE arr_start[1])
    ELSE IF obj_start # None THEN obj_start
    ELSE arr_start

\* serde_json::from_str(json_str).map_err(..)
parse_json_str(r) == IF r.ok THEN Ok(r.val) ELSE Err("Failed to parse JSON")

\* .ok_or_else(..)?, then the slice and the parse
parse_json_from(response, start) ==
    IF start = None THEN Err("No JSON found in response")
    ELSE parse_json_str(from_str(slice_from(response, start[1]).val))

parse_json_response(response) ==
    parse_json_from(response, parse_json_start(find(response, <<"{">>), find(response, <<"[">>)))

DeviceCommandResponse(raw, json) == [raw |-> raw, json |-> json]

\* The lenient handling of a reply without JSON: a response with json absent.
json_command_response_lenient(raw, parsed) ==
    Ok(DeviceCommandResponse(raw, IF parsed.ok THEN Some(parsed.val) ELSE None))

\* let json = parse_json_response(&raw, device_ip).map_err(CoreError::from)?
json_command_response(raw, parsed) ==
    IF parsed.ok THEN Ok(DeviceCommandResponse(raw, Some(parsed.val))) ELSE Err(parsed.err)

parse_command_response_any(command, raw) ==
    json_command_response(raw, parse_json_response(raw))

parse_command_response(command, raw) ==
    IF is_json_command(command) THEN json_command_response(raw, parse_json_response(raw))
    ELSE Ok(DeviceCommandResponse(raw, None))

\* let raw = self.send_raw(command).await?; parse_command_response(command, raw, ..)
send_parsed(command, sent) ==
    IF sent.kind = "Ok" THEN parse_command_response(command, sent.text)
    ELSE Err(sent.kind)

\* The fragments the classified replies are made of.
ClsFragments ==
    {<<"e", "r", "r", "o", "r", ":">>, <<"F", "a", "i", "l", "e", "d">>, <<"i", "n", "v", "a", "l", "i", "d">>, <<"N", "o", "t", " ", "f", "o", "u", "n", "d">>, <<"s", "u", "c", "c", "e", "s", "s">>, <<"O", "K">>, <<" ">>,
     <<"{", "\"", "s", "u", "c", "c", "e", "s", "s", "\"", ":", "f", "a", "l", "s", "e", ",", "\"", "m", "e", "s", "s", "a", "g", "e", "\"", ":", "\"", "m", "\"", "}">>, <<"{", "\"", "s", "u", "c", "c", "e", "s", "s", "\"", ":", "f", "a", "l", "s", "e", "}">>,
     <<"{", "\"", "s", "u", "c", "c", "e", "s", "s", "\"", ":", "t", "r", "u", "e", ",", "\"", "e", "r", "r", "o", "r", "\"", ":", "\"", "e", "\"", "}">>, <<"{", "\"", "e", "r", "r", "o", "r", "\"", ":", "\"", "e", "\"", "}">>, <<"{", "\"", "s", "u", "c", "c", "e", "s", "s", "\"", ":", "0", "}">>,
     <<"[">>, <<"]">>}

RECURSIVE ClsConcats(_)
ClsConcats(n) ==
    IF n = 0 THEN {<<>>}
    ELSE LET shorter == ClsConcats(n - 1)
         IN shorter \cup {r \o f : r \in shorter, f \in ClsFragments}

\* Every reply of at most MaxParts fragments.
ClsReplies == ClsConcats(MaxParts)

\* The commands sent: JSON-class by name, JSON-class by prefix, and two that
\* are not (a proper prefix of a JSON command, a JSON command behind a space).
ClsCommands == {<<"l", "i", "s", "t", "-", "c", "o", "n", "f", "i", "g", "s">>, <<"s", "a", "v", "e", "-", "c", "o", "n", "f", "i", "g", "-", "a", "s", " ", "-", "n", "a", "m", "e", " ", "t">>, <<"s", "a", "v", "e", "-", "c", "o", "n", "f", "i", "g">>, <<" ", "l", "i", "s", "t", "-", "c", "o", "n", "f", "i", "g", "s">>}

ClsIsError ==
    /\ cls_error = None
    /\ cls_error' = Some(is_error_response(cls_reply))
    /\ UNCHANGED <<cls_command, cls_reply, cls_json, cls_response, now, watch_vars, parse_vars,
                   once_vars, cmd_vars, retry_vars, batch_vars,
                   ext_vars>>

ClsParseJson ==
    /\ cls_json = None
    /\ cls_json' = Some(parse_json_response(cls_reply))
    /\ UNCHANGED <<cls_command, cls_reply, cls_error, cls_response, now, watch_vars, parse_vars,
                   once_vars, cmd_vars, retry_vars, batch_vars,
                   ext_vars>>

InitClassify ==
    /\ now = 0
    /\ WatchIdle
    /\ ParseIdle
    /\ OnceIdle
    /\ CmdIdle
    /\ cls_command = <<>>
    /\ cls_reply \in ClsReplies
    /\ cls_error = None
    /\ cls_json = None
    /\ cls_response = None
    /\ RetryIdle
    /\ BatchIdle /\ ExtIdle

NextClassify == ClsIsError \/ ClsParseJson

SpecClassify == InitClassify /\ [][NextClassify]_vars

\* DeviceConnection::send and send_command_parsed once the device has replied:
\* the checked reply of send_raw / send_command, then parse_command_response.
ClsSend ==
    /\ cls_response = None
    /\ cls_response' = Some(send_parsed(cls_command, check_reply(cls_reply)))
    /\ UNCHANGED <<cls_command, cls_reply, cls_error, cls_json, now, watch_vars, parse_vars,
                   once_vars, cmd_vars, retry_vars, batch_vars,
                   ext_vars>>

InitSend ==
    /\ now = 0
    /\ WatchIdle
    /\ ParseIdle
    /\ OnceIdle
    /\ CmdIdle
    /\ cls_command \in ClsCommands
    /\ cls_reply \in ClsReplies
    /\ cls_error = None
    /\ cls_json = None
    /\ cls_response = None
    /\ RetryIdle
    /\ BatchIdle /\ ExtIdle

NextSend == ClsSend

SpecSend == InitSend /\ [][NextSend]_vars

(***************************************************************************)
(* send_command_with_retry: one action for each await of its loop.         *)
(***************************************************************************)
MaxRetries == 2
RETRY_DELAY_MS == 500

\* How long one send_command may take, ms.
AttemptMs == {20, 700}

\* What send_command returns (see SpecCmd): a reply, or one of its errors.
RetryReplies == {Result("Ok", <<"O", "K">>, "")}
RetryFailures ==
    {Result("Other", <<>>, "Connection timeout"),
     Result("Other", <<>>, "WebSocket connect failed"),
     Result("Other", <<>>, "WebSocket send error"),
     Result("Other", <<>>, "timed out"),
     Result("Other", <<>>, "WebSocket error"),
     Result("InvalidResponse", <<>>, "No response received"),
     Result("CommandFailed", <<"b", "a", "d">>, "")}

in_range_exclusive(attempt, max_retries) == attempt < max_retries

\* for attempt in 0..=max_retries
in_range(attempt, max_retries) == attempt <= max_retries

\* if attempt < max_retries { sleep }
sleeps(attempt, max_retries) == attempt < max_retries

keep_first_error(last_error, e) == IF last_error = None THEN Some(e) ELSE last_error

\* last_error = Some(e)
set_last_error(last_error, e) == Some(e)

\* The loop moves to its next iteration, or ends and Err(last_error.unwrap()) is returned.
RetryLoopNext(last_error) ==
    IF in_range(retry_attempt + 1, retry_max)
    THEN /\ retry_attempt' = retry_attempt + 1
         /\ retry_pc' = "send"
         /\ UNCHANGED retry_result
    ELSE /\ retry_pc' = "done"
         /\ retry_result' = IF last_error = None THEN Result("panic", <<>>, "")
                            ELSE last_error[1]
         /\ UNCHANGED retry_attempt

\* match send_command(ip, command, cmd_timeout).await { Ok(..) => return, Err(e) => .. }
RetryAttempt ==
    /\ retry_pc = "send"
    /\ \E r \in RetryReplies \cup RetryFailures, d \in AttemptMs :
          /\ now' = now + d
          /\ retry_log' = Append(retry_log, [start |-> now, end |-> now + d, result |-> r])
          /\ IF r.kind = "Ok"
             THEN /\ retry_pc' = "done"
                  /\ retry_result' = r
                  /\ UNCHANGED <<retry_attempt, retry_last_error>>
             ELSE /\ retry_last_error' = set_last_error(retry_last_error, r)
                  /\ IF sleeps(retry_attempt, retry_max)
                     THEN /\ retry_pc' = "sleep"
                          /\ UNCHANGED <<retry_attempt, retry_result>>
                     ELSE RetryLoopNext(set_last_error(retry_last_error, r))
    /\ UNCHANGED <<retry_max, watch_vars, parse_vars, once_vars, cmd_vars, cls_vars, batch_vars,
                   ext_vars>>

\* tokio::time::sleep(Duration::from_millis(500)).await, then the next iteration
RetrySleep ==
    /\ retry_pc = "sleep"
    /\ now' = now + RETRY_DELAY_MS
    /\ RetryLoopNext(retry_last_error)
    /\ UNCHANGED <<retry_max, retry_log, retry_last_error, watch_vars, parse_vars, once_vars,
                   cmd_vars, cls_vars, batch_vars,
                   ext_vars>>

InitRetry ==
    /\ now = 0
    /\ WatchIdle
    /\ ParseIdle
    /\ OnceIdle
    /\ CmdIdle
    /\ ClsIdle
    /\ retry_max \in 0..MaxRetries
    /\ retry_attempt = 0
    /\ retry_pc = "send"
    /\ retry_log = <<>>
    /\ retry_last_error = None
    /\ retry_result = Pending
    /\ BatchIdle /\ ExtIdle

NextRetry == RetryAttempt \/ RetrySleep

SpecRetry == InitRetry /\ [][NextRetry]_vars

(***************************************************************************)
(* BatchSender::send_to_all and upload_firmware_bulk: a stream of per-IP   *)
(* operations under buffer_unordered, collected as they complete.          *)
(***************************************************************************)
MaxIps == 5
MaxCeiling == 2

Ip(n) == <<"192.168.1.", n>>
IpPrefix(n) == [i \in 1..n |-> Ip(i)]

\* The ips argument: distinct addresses, or the first address given twice.
BatchIpLists ==
    {IpPrefix(n) : n \in 0..MaxIps} \cup {Append(IpPrefix(n - 1), Ip(1)) : n \in 2..MaxIps}

\* What the operation on each device comes to when it runs.
BatchFates == [{Ip(i) : i \in 1..MaxIps} -> {"ok", "failed"}]

clamp_none(concurrency) == concurrency

\* concurrency.max(1)
clamp(concurrency) == IF concurrency < 1 THEN 1 ELSE concurrency

Entry(ip, result) == [ip |-> ip, result |-> result]

per_ip_result_until_failure(fate, ip, results) ==
    IF \E k \in 1..Len(results) : ~results[k].result.ok THEN Err("cancelled")
    ELSE IF fate[ip] = "ok" THEN Ok("done") ELSE Err("operation failed")

\* let result = send_command(..).await / upload_firmware_data(..).await
per_ip_result(fate, ip, results) ==
    IF fate[ip] = "ok" THEN Ok("done") ELSE Err("operation failed")

collect_by_ip(results, entry) ==
    IF \E k \in 1..Len(results) : results[k].ip = entry.ip
    THEN [k \in 1..Len(results) |-> IF results[k].ip = entry.ip THEN entry ELSE results[k]]
    ELSE Append(results, entry)

\* .collect() pushes each item the stream yields
collect(results, entry) == Append(results, entry)

client_failure_results_first_only(ips, msg) ==
    [i \in 1..(IF ips = <<>> THEN 0 ELSE 1) |-> Entry(ips[i], Err(msg))]

\* ips.iter().cloned().map(|ip| (ip, Err(CoreError::Other(msg.clone())))).collect()
client_failure_results(ips, msg) == [i \in 1..Len(ips) |-> Entry(ips[i], Err(msg))]

\* One call to the OtaProgressHandler.
on_progress(ip, bytes_sent, total_bytes) ==
    [fn |-> "on_progress", ip |-> ip, bytes_sent |-> bytes_sent, total_bytes |-> total_bytes]
on_complete(ip) == [fn |-> "on_complete", ip |-> ip]
on_error(ip, error) == [fn |-> "on_error", ip |-> ip, error |-> error]

\* progress.on_progress(&ip, 0, total_bytes), first thing in the async block
before_upload(calls, ip, total_bytes) == Append(calls, on_progress(ip, 0, total_bytes))

\* The wrong match of the result: on_complete whatever the result.
after_upload_always_complete(calls, ip, total_bytes, result) ==
    calls \o <<on_progress(ip, total_bytes, total_bytes), on_complete(ip)>>

\* match &result { Ok(()) => .., Err(e) => .. }
after_upload(calls, ip, total_bytes, result) ==
    IF result.ok
    THEN calls \o <<on_progress(ip, total_bytes, total_bytes), on_complete(ip)>>
    ELSE Append(calls, on_error(ip, result.err))

\* The lengths of the firmware image: empty or not.
TotalBytes == {0, 3}

\* A buffer that is filled once and never again.
CanStart_first_window ==
    /\ batch_next < Len(batch_ips)
    /\ batch_next < clamp(batch_ceiling)
    /\ Cardinality(batch_inflight) < clamp(batch_ceiling)

\* buffer_unordered pulls from the stream while it holds fewer futures than its limit
CanStart ==
    /\ batch_next < Len(batch_ips)
    /\ Cardinality(batch_inflight) < clamp(batch_ceiling)

\* build_client(): Ok(c) or Err(e)
BatchClient ==
    /\ batch_pc = "client"
    /\ \E built \in BOOLEAN :
          IF built
          THEN /\ batch_pc' = "run"
               /\ UNCHANGED <<batch_results, batch_log>>
          ELSE /\ batch_pc' = "returned"
               /\ batch_results' = client_failure_results(batch_ips, "HTTP client error")
               /\ batch_log' = Append(batch_log, [ev |-> "client_error", idx |-> 0])
    /\ UNCHANGED <<batch_fn, batch_ips, batch_ceiling, batch_fate, batch_next, batch_inflight,
                   now, watch_vars, parse_vars, once_vars, cmd_vars, cls_vars, retry_vars,
                   ext_vars>>

\* the stream yields the next ip and its operation starts
BatchStart ==
    /\ batch_pc = "run"
    /\ CanStart
    /\ batch_next' = batch_next + 1
    /\ batch_inflight' = batch_inflight \cup {batch_next + 1}
    /\ batch_log' = Append(batch_log, [ev |-> "start", idx |-> batch_next + 1])
    /\ ota_calls' = IF batch_fn = "upload_firmware_bulk"
                    THEN before_upload(ota_calls, batch_ips[batch_next + 1], ota_total)
                    ELSE ota_calls
    /\ UNCHANGED <<batch_fn, batch_ips, batch_ceiling, batch_fate, batch_results, batch_pc,
                   now, watch_vars, parse_vars, once_vars, cmd_vars, cls_vars, retry_vars,
                   ota_total, ext_but_ota>>

\* one of the operations in flight completes and (ip, result) is collected
BatchComplete ==
    /\ batch_pc = "run"
    /\ ~CanStart
    /\ \E i \in batch_inflight :
          /\ batch_inflight' = batch_inflight \ {i}
          /\ batch_results' =
                collect(batch_results,
                        Entry(batch_ips[i], per_ip_result(batch_fate, batch_ips[i], batch_results)))
          /\ batch_log' = Append(batch_log, [ev |-> "done", idx |-> i])
          /\ ota_calls' =
                IF batch_fn = "upload_firmware_bulk"
                THEN after_upload(ota_calls, batch_ips[i], ota_total,
                                  per_ip_result(batch_fate, batch_ips[i], batch_results))
                ELSE ota_calls
    /\ UNCHANGED <<batch_fn, batch_ips, batch_ceiling, batch_fate, batch_next, batch_pc,
                   now, watch_vars, parse_vars, once_vars, cmd_vars, cls_vars, retry_vars,
                   ota_total, ext_but_ota>>

\* the stream is exhausted and nothing is in flight: collect() resolves, results is returned
BatchReturn ==
    /\ batch_pc = "run"
    /\ batch_next = Len(batch_ips)
    /\ batch_inflight = {}
    /\ batch_pc' = "returned"
    /\ UNCHANGED <<batch_fn, batch_ips, batch_ceiling, batch_fate, batch_next, batch_inflight,
                   batch_results, batch_log,
                   now, watch_vars, parse_vars, once_vars, cmd_vars, cls_vars, retry_vars,
                   ext_vars>>

InitBatch ==
    /\ now = 0
    /\ WatchIdle
    /\ ParseIdle
    /\ OnceIdle
    /\ CmdIdle
    /\ ClsIdle
    /\ RetryIdle
    /\ batch_fn \in {"send_to_all", "upload_firmware_bulk"}
    /\ batch_ips \in BatchIpLists
    /\ batch_ceiling \in 0..MaxCeiling
    /\ batch_fate \in BatchFates
    /\ batch_next = 0
    /\ batch_inflight = {}
    /\ batch_results = <<>>
    /\ batch_pc = IF batch_fn = "upload_firmware_bulk" THEN "client" ELSE "run"
    /\ batch_log = <<>>
    /\ ExtIdleBut("ota")
    /\ ota_total \in IF batch_fn = "upload_firmware_bulk" THEN TotalBytes ELSE {0}
    /\ ota_calls = <<>>

NextBatch == BatchClient \/ BatchStart \/ BatchComplete \/ BatchReturn

SpecBatch == InitBatch /\ [][NextBatch]_vars

\* The calls in which at most one device fails.
InitBatchFair ==
    /\ InitBatch
    /\ Cardinality({ip \in DOMAIN batch_fate : batch_fate[ip] = "failed"}) <= 1

\* The caller awaits the returned future, so the executor goes on polling it:
\* a step of the function that stays possible is taken. For BatchComplete this
\* is the assumption that an operation in flight completes.
SpecBatchFair ==
    /\ InitBatchFair
    /\ [][NextBatch]_vars
    /\ WF_vars(BatchClient)
    /\ WF_vars(BatchStart)
    /\ WF_vars(BatchComplete)
    /\ WF_vars(BatchReturn)

(***************************************************************************)
(* Direct calls: a function applied to arguments drawn from a small set.   *)
(***************************************************************************)
Call(fn, args) ==
    /\ now = 0
    /\ WatchIdle /\ ParseIdle /\ OnceIdle /\ CmdIdle /\ ClsIdle /\ RetryIdle /\ BatchIdle
    /\ ExtIdleBut("call")
    /\ call_fn = fn
    /\ call_args \in args
    /\ call_ret = None

Return(fn, value) ==
    /\ call_fn = fn
    /\ call_ret = None
    /\ call_ret' = Some(value)
    /\ UNCHANGED <<call_fn, call_args, call_rest>>

(***************************************************************************)
(* upload_firmware_data: one multipart POST to http://<ip>/update.         *)
(***************************************************************************)
HttpStatuses == {200, 201, 204, 299, 300, 304, 400, 404, 500, 503}
HttpBodies == {<<>>, <<"U", "p", "d", "a", "t", "e", " ", "f", "a", "i", "l", "e", "d">>}

\* What client.post(..).send().await comes to: no response, or a response with a
\* status and a body that response.text().await can read or not.
HttpResponse(status, body, readable) == [status |-> status, body |-> body, readable |-> readable]
HttpOutcomes ==
    {Err("request failed")} \cup
    {Ok(HttpResponse(st, b, rd)) : st \in HttpStatuses, b \in HttpBodies, rd \in BOOLEAN}

is_success_below_400(status) == 200 <= status /\ status <= 399

\* response.status().is_success()
is_success(status) == 200 <= status /\ status <= 299

\* response.text().await
text(response) == IF response.readable THEN Ok(response.body) ELSE Err("body")

\* .unwrap_or_default()
unwrap_or_default(r) == IF r.ok THEN r.val ELSE <<>>

\* CoreError::Device(DeviceError::OtaFailed { ip, message: format!("HTTP {}: {}", status, body) })
OtaFailed(ip, status, body) ==
    [kind |-> "OtaFailed", ip |-> ip, message |-> <<"HTTP ", status, ": ", body>>]

\* CoreError::Other(format!("HTTP request to {} failed: {}", ip, e))
RequestFailed(ip, e) == [kind |-> "Other", message |-> <<"HTTP request to ", ip, " failed: ", e>>]

upload_firmware_data(ip, sent) ==
    IF ~sent.ok THEN Err(RequestFailed(ip, sent.err))
    ELSE IF ~is_success(sent.val.status)
    THEN Err(OtaFailed(ip, sent.val.status, unwrap_or_default(text(sent.val))))
    ELSE Ok(<<>>)

CallUpload ==
    Return("upload_firmware_data", upload_firmware_data(call_args.ip, call_args.sent))

InitUpload ==
    Call("upload_firmware_data", [ip : {Ip(1), Ip(2)}, sent : HttpOutcomes])

NextUpload == CallUpload

SpecUpload == InitUpload /\ [][NextUpload]_vars

(***************************************************************************)
(* A persistent DeviceConnection: send_batch and send_device_commands send *)
(* their commands through DeviceConnection::send, one await at a time,     *)
(* while the device reads commands and writes frames.                      *)
(***************************************************************************)
MaxCmds == 3
MaxOther == 1

\* The commands argument: plain and JSON-class commands in turn.
CommandList(n) ==
    [i \in 1..n |-> IF i % 2 = 1 THEN <<"r", "e", "b", "o", "o", "t">>
                    ELSE <<"l", "i", "s", "t", "-", "c", "o", "n", "f", "i", "g", "s">>]
CommandLists == {CommandList(n) : n \in 0..MaxCmds}

DigitChar(j) == <<"1", "2", "3", "4", "5", "6", "7", "8", "9">>[j]

\* What the device answers to its j-th command: a reply that names j (JSON for a
\* JSON-class command), or a text the client classifies as an error.
DeviceReply(cmd, j, kind) ==
    IF kind = "error" THEN <<"e", "r", "r", "o", "r", ":", " ">> \o <<DigitChar(j)>>
    ELSE IF is_json_command(cmd) THEN <<"[", DigitChar(j), "]">>
    ELSE <<"O", "K", " ">> \o <<DigitChar(j)>>

\* Frames the device writes that answer no command.
OtherFrames ==
    {Frame("ping", <<>>), Frame("text", <<"O", "K", " ", "9">>), Frame("close", <<>>),
     Frame("error", <<>>)}

Wire(frame, for) == [frame |-> frame, for |-> for]
Event(ev, k, what) == [ev |-> ev, k |-> k, what |-> what]

\* The wrong index of send_device_commands: the enumerate() index as it is.
conn_error_zero_based(fn, index, e) ==
    IF fn = "send_device_commands" THEN <<"Command ", index - 1, " failed: ", e>> ELSE e

\* .map_err(..) of send_device_commands: "Command {index + 1} failed: {msg}"
conn_error(fn, index, e) ==
    IF fn = "send_device_commands" THEN <<"Command ", index, " failed: ", e>> ELSE e

push_front(responses, response) == <<response>> \o responses

\* responses.push(response)
push(responses, response) == Append(responses, response)

ConnFail(e, what) ==
    /\ conn_pc' = "done"
    /\ conn_result' = Some(Err(conn_error(conn_fn, conn_k + 1, e)))
    /\ conn_log' = Append(conn_log, Event("observed", conn_k + 1, what))
    /\ UNCHANGED <<conn_k, conn_responses>>

\* DeviceConnection::connect: timeout(connect_timeout, connect_async(&url))
ConnConnect ==
    /\ conn_pc = "connect"
    /\ \E outcome \in {"ok", "timeout", "failed"} :
          IF outcome = "ok" THEN conn_pc' = "send" /\ UNCHANGED conn_result
          ELSE /\ conn_pc' = "done"
               /\ conn_result' = Some(Err(IF outcome = "timeout" THEN "Connection timeout"
                                          ELSE "WebSocket connect failed"))
    /\ UNCHANGED <<conn_fn, conn_cmds, conn_k, conn_wire, conn_dev, conn_log, conn_responses,
                   conn_rest>>

\* send_raw: self.ws_stream.send(Message::Text(command)).await
ConnSend ==
    /\ conn_pc = "send"
    /\ conn_k < Len(conn_cmds)
    /\ \E outcome \in {"ok", "error"} :
          IF outcome = "ok"
          THEN /\ conn_pc' = "read"
               /\ conn_dev' = [conn_dev EXCEPT !.got = @ + 1]
               /\ conn_log' = Append(conn_log, Event("sent", conn_k + 1, ""))
               /\ UNCHANGED <<conn_k, conn_responses, conn_result>>
          ELSE /\ ConnFail("WebSocket send error", "error")
               /\ UNCHANGED conn_dev
    /\ UNCHANGED <<conn_fn, conn_cmds, conn_wire, conn_rest>>

\* the response of send: parse_command_response(command, raw) after the error check
ConnReply(response) ==
    IF response.ok
    THEN /\ conn_responses' = push(conn_responses, response.val)
         /\ conn_k' = conn_k + 1
         /\ conn_pc' = "send"
         /\ conn_log' = Append(conn_log, Event("observed", conn_k + 1, "reply"))
         /\ UNCHANGED conn_result
    ELSE ConnFail(response.err, "error")

\* send_raw: while let Some(msg) = self.ws_stream.next().await { match msg { .. } }
ConnRecv ==
    /\ conn_pc = "read"
    /\ conn_wire # <<>>
    /\ conn_wire' = Tail(conn_wire)
    /\ CASE frame_step(Head(conn_wire).frame) = "return" ->
               ConnReply(send_parsed(conn_cmds[conn_k + 1], check_reply(Head(conn_wire).frame.text)))
         [] frame_step(Head(conn_wire).frame) = "break" -> ConnFail("InvalidResponse", "error")
         [] frame_step(Head(conn_wire).frame) = "error" -> ConnFail("WebSocket error", "error")
         [] OTHER -> UNCHANGED <<conn_k, conn_pc, conn_log, conn_responses, conn_result>>
    /\ UNCHANGED <<conn_fn, conn_cmds, conn_dev, conn_rest>>

\* send_raw: timeout(self.timeout, ..) expires while the loop waits for a frame
ConnTimeout ==
    /\ conn_pc = "read"
    /\ conn_wire = <<>>
    /\ ConnFail("timed out", "timeout")
    /\ UNCHANGED <<conn_fn, conn_cmds, conn_wire, conn_dev, conn_rest>>

\* the for loop is exhausted: Ok(responses)
ConnReturn ==
    /\ conn_pc = "send"
    /\ conn_k = Len(conn_cmds)
    /\ conn_pc' = "done"
    /\ conn_result' = Some(Ok(conn_responses))
    /\ UNCHANGED <<conn_fn, conn_cmds, conn_k, conn_wire, conn_dev, conn_log, conn_responses,
                   conn_rest>>

\* the device answers the oldest command it has not answered, with one text frame
DevAnswer ==
    /\ conn_pc \in {"send", "read"}
    /\ conn_dev.answered < conn_dev.got
    /\ \E kind \in {"ok", "error"} :
          conn_wire' =
              Append(conn_wire,
                     Wire(Frame("text", DeviceReply(conn_cmds[conn_dev.answered + 1],
                                                    conn_dev.answered + 1, kind)),
                          conn_dev.answered + 1))
    /\ conn_dev' = [conn_dev EXCEPT !.answered = @ + 1]
    /\ conn_log' = Append(conn_log, Event("frame", conn_dev.answered + 1, "text"))
    /\ UNCHANGED <<conn_fn, conn_cmds, conn_k, conn_pc, conn_responses, conn_result, conn_rest>>

\* the device writes a frame that answers no command, or the stream fails or ends
DevOther ==
    /\ conn_pc \in {"send", "read"}
    /\ conn_dev.other < MaxOther
    /\ \E f \in OtherFrames :
          /\ conn_wire' = Append(conn_wire, Wire(f, 0))
          /\ conn_log' = Append(conn_log, Event("frame", 0, f.t))
    /\ conn_dev' = [conn_dev EXCEPT !.other = @ + 1]
    /\ UNCHANGED <<conn_fn, conn_cmds, conn_k, conn_pc, conn_responses, conn_result, conn_rest>>

InitConn ==
    /\ now = 0
    /\ WatchIdle /\ ParseIdle /\ OnceIdle /\ CmdIdle /\ ClsIdle /\ RetryIdle /\ BatchIdle
    /\ ExtIdleBut("conn")
    /\ conn_fn \in {"send_batch", "send_device_commands"}
    /\ conn_cmds \in CommandLists
    /\ conn_k = 0
    /\ conn_pc = IF conn_fn = "send_device_commands" THEN "connect" ELSE "send"
    /\ conn_wire = <<>>
    /\ conn_dev = [got |-> 0, answered |-> 0, other |-> 0]
    /\ conn_log = <<>>
    /\ conn_responses = <<>>
    /\ conn_result = None

NextConn ==
    ConnConnect \/ ConnSend \/ ConnRecv \/ ConnTimeout \/ ConnReturn \/ DevAnswer \/ DevOther

SpecConn == InitConn /\ [][NextConn]_vars

(***************************************************************************)
(* The status a bulk CLI command ends with: run_bulk_command and           *)
(* run_update, from the per-device results to the exit code of the process. *)
(***************************************************************************)
SUCCESS == 0
GENERAL_ERROR == 1
NETWORK_ERROR == 2
DEVICE_ERROR == 3
INVALID_ARGS == 4
PARTIAL_FAILURE == 5

\* What the operation on one device came to: Ok, a DeviceError or CoreError::Other.
DeviceOutcomes == {"ok", "Device", "Other"}

RECURSIVE OutcomeLists(_)
OutcomeLists(n) ==
    IF n = 0 THEN {<<>>}
    ELSE OutcomeLists(n - 1) \cup {Append(l, o) : l \in OutcomeLists(n - 1), o \in DeviceOutcomes}

\* formatted_results.iter().filter(|(_, s, _)| !s).count()
failed_count(results) == Cardinality({k \in 1..Len(results) : results[k] # "ok"})

\* if strict && failed_count > 0 { return Err(CliError::PartialFailure { .. }) } Ok(())
bulk_status(strict, results) ==
    IF strict /\ failed_count(results) > 0
    THEN Err([kind |-> "PartialFailure",
              succeeded |-> Len(results) - failed_count(results),
              failed |-> failed_count(results)])
    ELSE Ok(<<>>)

run_bulk_command(strict, results) ==
    IF results = <<>> THEN Err([kind |-> "NoDevicesFound"])
    ELSE bulk_status(strict, results)

\* one device and no --json: upload_firmware(..).await, result?; else the bulk upload
run_update(strict, json, results) ==
    IF results = <<>> THEN Err([kind |-> "NoDevicesFound"])
    ELSE IF Len(results) = 1 /\ ~json
    THEN IF results[1] = "ok" THEN Ok(<<>>) ELSE Err([kind |-> "Core", core |-> results[1]])
    ELSE bulk_status(strict, results)

\* CliError::exit_code
exit_code(e) ==
    CASE e.kind = "Core" -> IF e.core = "Device" THEN DEVICE_ERROR ELSE GENERAL_ERROR
      [] e.kind = "PartialFailure" -> PARTIAL_FAILURE
      [] e.kind = "NoDevicesFound" -> GENERAL_ERROR
      [] e.kind = "InvalidArgument" -> INVALID_ARGS
      [] e.kind = "Timeout" -> NETWORK_ERROR
      [] OTHER -> GENERAL_ERROR

\* main: Ok(()) => exit(SUCCESS), Err(e) => exit(e.exit_code())
process_exit(result) == [result |-> result, code |-> IF result.ok THEN SUCCESS ELSE exit_code(result.err)]

CallBulkCommand ==
    Return("run_bulk_command", process_exit(run_bulk_command(call_args.strict, call_args.results)))

CallUpdate ==
    Return("run_update",
           process_exit(run_update(call_args.strict, call_args.json, call_args.results)))

BulkArgs == [strict : BOOLEAN, json : BOOLEAN, results : OutcomeLists(MaxIps)]

InitBulk == Call("run_bulk_command", BulkArgs) \/ Call("run_update", BulkArgs)

NextBulk == CallBulkCommand \/ CallUpdate

SpecBulk == InitBulk /\ [][NextBulk]_vars

(***************************************************************************)
(* Commands::write_param: the value is escaped and put between quotes.     *)
(***************************************************************************)
MaxValue == 3

ValueChars == {"a", "\\", "\""}
RECURSIVE Values(_)
Values(n) ==
    IF n = 0 THEN {<<>>}
    ELSE Values(n - 1) \cup {Append(v, c) : v \in Values(n - 1), c \in ValueChars}

\* str::replace(from, to) for a one-character pattern
RECURSIVE replace(_, _, _)
replace(s, from, to) ==
    IF s = <<>> THEN <<>>
    ELSE (IF s[1] = from THEN to ELSE <<s[1]>>) \o replace(Tail(s), from, to)

\* The escaping without its first replace: backslashes stay as they are.
safe_value_quotes_only(value) == replace(value, "\"", <<"\\", "\"">>)

safe_value_quotes_first(value) == replace(replace(value, "\"", <<"\\", "\"">>), "\\", <<"\\", "\\">>)

\* value.replace('\\', "\\\\").replace('"', "\\\"")
safe_value(value) == replace(replace(value, "\\", <<"\\", "\\">>), "\"", <<"\\", "\"">>)

\* format!("write -group {} -name {} -data \"{}\"", group, name, safe_value)
write_param(group, name, value) ==
    <<"w", "r", "i", "t", "e", " ", "-", "g", "r", "o", "u", "p", " ">> \o group \o <<" ", "-", "n", "a", "m", "e", " ">> \o name \o <<" ", "-", "d", "a", "t", "a", " ", "\"">> \o safe_value(value) \o <<"\"">>

CallWriteParam ==
    Return("write_param", write_param(call_args.group, call_args.name, call_args.value))

InitWriteParam ==
    Call("write_param", [group : {<<"w", "i", "f", "i">>}, name : {<<"s", "s", "i", "d", "S", "T">>, <<"p", "s", "w", "d", "S", "T">>}, value : Values(MaxValue)])

NextWriteParam == CallWriteParam

SpecWriteParam == InitWriteParam /\ [][NextWriteParam]_vars

(***************************************************************************)
(* A command against the clock: send_command and send_raw with the time    *)
(* each await takes. timeout(..) wraps the connect and the receive loop;   *)
(* the write of the command frame is awaited without one.                  *)
(***************************************************************************)
CONNECT_TIMEOUT_MS == 5000
TICK_MS == 500
MaxOverrun == 2     \* ticks the clock may run past both timeouts together

ResponseTimeouts == {1000, 5000}

\* The longest a command may take if each await is bounded by its timeout.
Deadline(fn, response_timeout) ==
    (IF fn = "send_command" THEN CONNECT_TIMEOUT_MS ELSE 0) + response_timeout

\* Frames of the receive loop: ignored ones, a reply, an error reply, close, a failure.
ShotFrames ==
    {Frame("ping", <<>>), Frame("binary", <<"O", "K">>), Frame("text", <<"O", "K">>),
     Frame("text", <<"e", "r", "r", "o", "r", ":", " ", "b", "a", "d">>), Frame("close", <<>>), Frame("error", <<>>)}

ShotDone(r) == shot_pc' = "done" /\ shot_result' = r /\ UNCHANGED shot_since

ShotAwait(pc) == shot_pc' = pc /\ shot_since' = now /\ UNCHANGED shot_result

\* The instant the await at pc gives up: the write of the command has no timeout.
expires(pc, since, response_timeout) ==
    CASE pc = "connect" -> since + CONNECT_TIMEOUT_MS
      [] pc = "read" -> since + response_timeout
      [] OTHER -> Deadline("send_command", response_timeout) + MaxOverrun * TICK_MS

\* time passes while the command waits
ShotTick ==
    /\ shot_pc \in {"connect", "send", "read"}
    /\ now + TICK_MS <= expires(shot_pc, shot_since, shot_timeout)
    /\ now' = now + TICK_MS
    /\ UNCHANGED <<shot_vars, shot_rest>>

\* timeout(connect_timeout, connect_async(&url)).await
ShotConnect ==
    /\ shot_pc = "connect"
    /\ \E outcome \in {"ok", "failed", "timeout"} :
          CASE outcome = "ok" -> ShotAwait("send")
            [] outcome = "failed" -> ShotDone(Result("Other", <<>>, "WebSocket connect failed"))
            [] outcome = "timeout" ->
                 /\ now = expires(shot_pc, shot_since, shot_timeout)
                 /\ ShotDone(Result("Other", <<>>, "Connection timeout"))
    /\ UNCHANGED <<shot_fn, shot_timeout, now, shot_rest>>

\* write.send(Message::Text(command)).await
ShotSend ==
    /\ shot_pc = "send"
    /\ \E outcome \in {"ok", "error"} :
          IF outcome = "ok" THEN ShotAwait("read")
          ELSE ShotDone(Result("Other", <<>>, "WebSocket send error"))
    /\ UNCHANGED <<shot_fn, shot_timeout, now, shot_rest>>

\* the receive loop inside timeout(cmd_timeout, ..)
ShotRecv ==
    /\ shot_pc = "read"
    /\ \E msg \in ShotFrames :
          CASE frame_step(msg) = "return" -> ShotDone(check_reply(msg.text))
            [] frame_step(msg) = "break" ->
                 ShotDone(Result("InvalidResponse", <<>>, "No response received"))
            [] frame_step(msg) = "error" -> ShotDone(Result("Other", <<>>, "WebSocket error"))
            [] OTHER -> UNCHANGED <<shot_pc, shot_since, shot_result>>
    /\ UNCHANGED <<shot_fn, shot_timeout, now, shot_rest>>

\* .map_err(|_| CoreError::Other(format!("Command to {} timed out", ip)))
ShotTimeout ==
    /\ shot_pc = "read"
    /\ now = expires(shot_pc, shot_since, shot_timeout)
    /\ ShotDone(Result("Other", <<>>, "timed out"))
    /\ UNCHANGED <<shot_fn, shot_timeout, now, shot_rest>>

InitShot ==
    /\ now = 0
    /\ WatchIdle /\ ParseIdle /\ OnceIdle /\ CmdIdle /\ ClsIdle /\ RetryIdle /\ BatchIdle
    /\ ExtIdleBut("shot")
    /\ shot_fn \in {"send_command", "send_raw"}
    /\ shot_timeout \in ResponseTimeouts
    /\ shot_pc = IF shot_fn = "send_command" THEN "connect" ELSE "send"
    /\ shot_since = 0
    /\ shot_result = Pending

NextShot == ShotTick \/ ShotConnect \/ ShotSend \/ ShotRecv \/ ShotTimeout

SpecShot == InitShot /\ [][NextShot]_vars

(***************************************************************************)
(* Binding the discovery port. Every listener of heartbeats binds          *)
(* 0.0.0.0:3333: the core DiscoveryService (the CLI's watch mode),         *)
(* discover_once (the CLI's snapshot) and the desktop backend's own        *)
(* DiscoveryService. The platform is a Unix with port reuse (the           *)
(* #[cfg(unix)] line of create_reusable_socket is compiled in).            *)
(***************************************************************************)
MaxBinds == 4

\* A socket as the port sees it: who created it and the two options it set
\* before bind.
Socket(who, reuse_address, reuse_port) ==
    [who |-> who, reuse_address |-> reuse_address, reuse_port |-> reuse_port]

\* socket.bind on a port other sockets may hold: a UDP bind of the same
\* address succeeds when the port is free, or when the new socket and every
\* socket already bound set SO_REUSEPORT, or all of them set SO_REUSEADDR.
\* Otherwise the call fails with "address in use".
bind(open, socket) ==
    \/ \A k \in 1..Len(open) : open[k].reuse_port /\ socket.reuse_port
    \/ \A k \in 1..Len(open) : open[k].reuse_address /\ socket.reuse_address

\* create_reusable_socket: both options are set before bind.
create_reusable_socket(who) == Socket(who, TRUE, TRUE)

\* The desktop backend's DiscoveryService::new: UdpSocket::bind, which
\* creates the socket and binds it with no option set.
UdpSocket_bind(who) == Socket(who, FALSE, FALSE)

\* One bind attempt: the socket joins the port when bind lets it, and the
\* attempt is recorded with its outcome.
Bind(socket) ==
    /\ Len(sock_log) < MaxBinds
    /\ sock_open' = IF bind(sock_open, socket) THEN Append(sock_open, socket)
                                               ELSE sock_open
    /\ sock_log' = Append(sock_log,
                     [socket |-> socket, ok |-> bind(sock_open, socket),
                      beside |-> {sock_open[k].who : k \in 1..Len(sock_open)}])
    /\ UNCHANGED <<now, sock_rest>>

\* The core DiscoveryService::new (rtls-link-cli discover --watch).
CoreDiscoveryNew == Bind(create_reusable_socket("watch"))

\* discover_once (rtls-link-cli discover).
DiscoverOnce == Bind(create_reusable_socket("discover_once"))

\* The desktop backend's DiscoveryService::new, called once at start-up.
DesktopDiscoveryNew == Bind(UdpSocket_bind("desktop"))

\* A listener ends (the snapshot's duration elapsed, the process exits) and
\* its socket is dropped.
SockClose ==
    \E k \in 1..Len(sock_open) :
        /\ sock_open' = [j \in 1..(Len(sock_open) - 1) |->
                            IF j < k THEN sock_open[j] ELSE sock_open[j + 1]]
        /\ UNCHANGED <<now, sock_log, sock_rest>>

InitSock ==
    /\ now = 0
    /\ WatchIdle /\ ParseIdle /\ OnceIdle /\ CmdIdle /\ ClsIdle /\ RetryIdle /\ BatchIdle
    /\ ExtIdleBut("sock")
    /\ SockIdle

NextSock ==
    \/ CoreDiscoveryNew
    \/ DiscoverOnce
    \/ DesktopDiscoveryNew
    \/ SockClose

SpecSock == InitSock /\ [][NextSock]_vars

(***************************************************************************)
(* The desktop backend's log buffers: LogStreamState. A device numbers its *)
(* log messages (ts), so the k-th message a device sends is                *)
(* LogMessage(ip, k).                                                      *)
(***************************************************************************)
MAX_LOGS_PER_DEVICE == 500
MaxLogs == 502
MaxQuiet == 2
LogDevices == 2

LogIps == {Ip(n) : n \in 1..LogDevices}

LogMessage(device_ip, ts) == [device_ip |-> device_ip, ts |-> ts]

\* VecDeque::pop_front and push_back.
pop_front(buffer) == IF buffer = <<>> THEN buffer ELSE Tail(buffer)
push_back(buffer, log) == Append(buffer, log)

\* The wrong capacity test of add_log: > for >=.
at_capacity_after(buffer) == Len(buffer) > MAX_LOGS_PER_DEVICE

at_capacity(buffer) == Len(buffer) >= MAX_LOGS_PER_DEVICE

\* log_buffers.entry(device_ip).or_insert_with(..): the map with an empty
\* buffer for the device when it has none.
or_insert_with(buffers, device_ip) ==
    IF device_ip \in DOMAIN buffers THEN buffers
    ELSE [ip \in DOMAIN buffers \cup {device_ip} |->
            IF ip = device_ip THEN <<>> ELSE buffers[ip]]

\* LogStreamState::add_log.
add_log(buffers, device_ip, log) ==
    [or_insert_with(buffers, device_ip) EXCEPT ![device_ip] =
        push_back(IF at_capacity(@) THEN pop_front(@) ELSE @, log)]

\* LogStreamState::get_logs.
get_logs(buffers, device_ip) ==
    IF device_ip \in DOMAIN buffers THEN buffers[device_ip] ELSE <<>>

\* How many messages a device has sent.
SentBy(device_ip) == IF device_ip \in DOMAIN log_sent THEN log_sent[device_ip] ELSE 0

\* A log datagram of a device arrives and is added to its buffer. Up to
\* MaxLogs messages are followed for one device at a time, up to MaxQuiet for
\* the others.
AddLog ==
    \E device_ip \in LogIps :
        /\ SentBy(device_ip) < MaxLogs
        /\ \/ SentBy(device_ip) < MaxQuiet
           \/ \A ip \in LogIps \ {device_ip} : SentBy(ip) <= MaxQuiet
        /\ log_buffers' = add_log(log_buffers, device_ip,
                                  LogMessage(device_ip, SentBy(device_ip) + 1))
        /\ log_sent' = [ip \in DOMAIN log_sent \cup {device_ip} |->
                           IF ip = device_ip THEN SentBy(ip) + 1 ELSE log_sent[ip]]
        /\ UNCHANGED <<now, log_rest>>

InitLog ==
    /\ now = 0
    /\ WatchIdle /\ ParseIdle /\ OnceIdle /\ CmdIdle /\ ClsIdle /\ RetryIdle /\ BatchIdle
    /\ ExtIdleBut("log")
    /\ LogIdle

NextLog == AddLog

SpecLog == InitLog /\ [][NextLog]_vars

(***************************************************************************)
(* The desktop backend's log stream: LogReceiverService::run beside the    *)
(* start_log_stream and stop_log_stream commands. The three run as tasks   *)
(* of a multi-threaded runtime and share LogStreamState behind a lock: a   *)
(* stretch of code that holds the lock is one step, what run does after    *)
(* releasing it is another.                                                *)
(***************************************************************************)
MaxStream == 5

StreamIps == {Ip(1), Ip(2)}

\* serde_json::from_slice::<RawLogMessage>: a datagram is a log message or
\* it is not.
LogDatagrams == {[wf |-> TRUE], [wf |-> FALSE]}

\* active_streams.insert(device_ip, true)
insert_active(active, device_ip) ==
    [ip \in DOMAIN active \cup {device_ip} |-> IF ip = device_ip THEN TRUE ELSE active[ip]]

\* active_streams.remove(&device_ip)
remove_active(active, device_ip) == [ip \in DOMAIN active \ {device_ip} |-> active[ip]]

\* LogStreamState::is_active
is_active(active, device_ip) == IF device_ip \in DOMAIN active THEN active[device_ip] ELSE FALSE

StreamEvent(ev, ip, ts) == [ev |-> ev, ip |-> ip, ts |-> ts]

StreamStep == stream_pc = "recv" /\ Len(stream_log) < MaxStream

\* Ok((len, addr)): a datagram arrives. A log message is buffered under the
\* lock, and the lock is released before the event is emitted.
StreamRecv ==
    \E device_ip \in StreamIps, datagram \in LogDatagrams :
        /\ StreamStep
        /\ IF datagram.wf
           THEN /\ log_buffers' = add_log(log_buffers, device_ip,
                                          LogMessage(device_ip, SentBy(device_ip) + 1))
                /\ log_sent' = [ip \in DOMAIN log_sent \cup {device_ip} |->
                                   IF ip = device_ip THEN SentBy(ip) + 1 ELSE log_sent[ip]]
                /\ stream_log' = Append(stream_log,
                                        StreamEvent("log", device_ip, SentBy(device_ip) + 1))
                /\ IF is_active(stream_active, device_ip)
                   THEN /\ stream_pc' = "emit"
                        /\ stream_msg' = <<LogMessage(device_ip, SentBy(device_ip) + 1)>>
                   ELSE UNCHANGED <<stream_pc, stream_msg>>
           ELSE /\ stream_log' = Append(stream_log, StreamEvent("not_a_log", device_ip, 0))
                /\ UNCHANGED <<log_buffers, log_sent, stream_pc, stream_msg>>
        /\ UNCHANGED <<now, stream_active, stream_rest>>

\* Err(e): the socket reported an error; it is printed and the loop goes on.
StreamRecvError ==
    /\ StreamStep
    /\ stream_log' = Append(stream_log, StreamEvent("error", <<>>, 0))
    /\ UNCHANGED <<now, log_vars, stream_active, stream_pc, stream_msg, stream_rest>>

\* app_handle.emit("device-log", &log_msg), after drop(state)
StreamEmit ==
    /\ stream_pc = "emit"
    /\ stream_log' = Append(stream_log,
                            StreamEvent("device-log", stream_msg[1].device_ip, stream_msg[1].ts))
    /\ stream_pc' = "recv"
    /\ stream_msg' = <<>>
    /\ UNCHANGED <<now, log_vars, stream_active, stream_rest>>

\* The start_log_stream command, from taking the lock to its return.
StartLogStream ==
    \E device_ip \in StreamIps :
        /\ Len(stream_log) < MaxStream
        /\ stream_active' = insert_active(stream_active, device_ip)
        /\ stream_log' = Append(stream_log, StreamEvent("start", device_ip, 0))
        /\ UNCHANGED <<now, log_vars, stream_pc, stream_msg, stream_rest>>

\* The stop_log_stream command, from taking the lock to its return.
StopLogStream ==
    \E device_ip \in StreamIps :
        /\ Len(stream_log) < MaxStream
        /\ stream_active' = remove_active(stream_active, device_ip)
        /\ stream_log' = Append(stream_log, StreamEvent("stop", device_ip, 0))
        /\ UNCHANGED <<now, log_vars, stream_pc, stream_msg, stream_rest>>

InitStream ==
    /\ now = 0
    /\ WatchIdle /\ ParseIdle /\ OnceIdle /\ CmdIdle /\ ClsIdle /\ RetryIdle /\ BatchIdle
    /\ ExtIdle

NextStream ==
    \/ StreamRecv
    \/ StreamRecvError
    \/ StreamEmit
    \/ StartLogStream
    \/ StopLogStream

SpecStream == InitStream /\ [][NextStream]_vars

(***************************************************************************)
(* calculate_device_health (CLI): the health level and issue list of a     *)
(* device, from its role and its optional telemetry.                       *)
(***************************************************************************)
MaxAnchors == 4

Roles == {"Anchor", "Tag", "AnchorTdoa", "TagTdoa", "Calibration", "Unknown"}

\* DeviceRole::is_anchor and is_tag: the two anchor roles, the two tag roles.
is_anchor(role) == role \in {"Anchor", "AnchorTdoa"}
is_tag(role) == role \in {"Tag", "TagTdoa"}

OptionOf(S) == {None} \cup {Some(x) : x \in S}

\* The devices the health is computed for: every role with every
\* combination of the five telemetry fields read.
HealthDevices ==
    [role : Roles,
     sending_pos : OptionOf(BOOLEAN),
     anchors_seen : OptionOf(0..MaxAnchors),
     origin_sent : OptionOf(BOOLEAN),
     rf_enabled : OptionOf(BOOLEAN),
     rf_healthy : OptionOf(BOOLEAN)]

DeviceHealth(level, issues) == [level |-> level, issues |-> issues]

\* The wrong anchor threshold: <= for <.
too_few_up_to_three(anchors) == anchors <= 3

\* anchors < 3
too_few(anchors) == anchors < 3

\* An issue is text in pieces: "..".to_string() is one piece, format! several.
to_string(s) == <<s>>

\* format!("Only seeing {} anchor{}", anchors, plural)
only_seeing(anchors) ==
    <<"Only seeing ", anchors, " anchor", IF anchors = 1 THEN "" ELSE "s">>

\* issues.push(..) when the test holds
push_if(issues, test, issue) == IF test THEN Append(issues, issue) ELSE issues

has_telemetry(device) ==
    \/ device.sending_pos # None
    \/ device.anchors_seen # None
    \/ device.origin_sent # None
    \/ device.rf_enabled # None

\* The four tests of calculate_tag_health, in the order of the code.
tag_issues(device) ==
    push_if(
      push_if(
        push_if(
          push_if(<<>>, device.sending_pos = Some(FALSE), to_string("Not sending positions")),
          device.anchors_seen # None /\ too_few(device.anchors_seen[1]),
          IF device.anchors_seen # None THEN only_seeing(device.anchors_seen[1]) ELSE <<>>),
        device.origin_sent = Some(FALSE), to_string("Origin not sent to autopilot")),
      device.rf_enabled = Some(TRUE) /\ device.rf_healthy = Some(FALSE),
      to_string("Rangefinder unhealthy"))

calculate_tag_health(device) ==
    IF ~has_telemetry(device) THEN DeviceHealth("Unknown", <<to_string("No telemetry data")>>)
    ELSE IF tag_issues(device) = <<>> THEN DeviceHealth("Healthy", <<>>)
    ELSE IF device.sending_pos = Some(FALSE) THEN DeviceHealth("Degraded", tag_issues(device))
    ELSE IF device.anchors_seen # None /\ too_few(device.anchors_seen[1])
         THEN DeviceHealth("Degraded", tag_issues(device))
    ELSE DeviceHealth("Warning", tag_issues(device))

calculate_device_health(device) ==
    IF is_anchor(device.role) THEN DeviceHealth("Healthy", <<>>)
    ELSE IF is_tag(device.role) THEN calculate_tag_health(device)
    ELSE DeviceHealth("Unknown", <<>>)

CallHealth == Return("calculate_device_health", calculate_device_health(call_args))

InitHealth == Call("calculate_device_health", HealthDevices)

NextHealth == CallHealth

SpecHealth == InitHealth /\ [][NextHealth]_vars

(***************************************************************************)
(* Applying parameters to one device over a persistent connection (CLI):   *)
(* apply_config_to_device and upload_preset_to_device. Each send_raw is    *)
(* one step: the command is sent and send_raw returns the reply or an      *)
(* error.                                                                  *)
(***************************************************************************)
MaxParams == 3

\* The (group, name, value) triples, in the order config_to_params and
\* location_to_params list them.
ParamList(n) ==
    [k \in 1..n |->
        IF k % 2 = 1 THEN [group |-> <<"w", "i", "f", "i">>, name |-> <<"s", "s", "i", "d", "S", "T">>, value |-> <<"a", "\"">>]
        ELSE [group |-> <<"u", "w", "b">>, name |-> <<"m", "o", "d", "e">>, value |-> <<"0" , "\\">>]]

\* Commands::save_config and Commands::save_config_as
save_config == <<"s", "a", "v", "e", "-", "c", "o", "n", "f", "i", "g">>
save_config_as(name) == <<"s", "a", "v", "e", "-", "c", "o", "n", "f", "i", "g", "-", "a", "s", " ", "-", "n", "a", "m", "e", " ">> \o name

\* The presets: both types, with and without the data of their type.
Presets == [preset_type : {"Full", "Locations"}, name : {<<"l", "a", "b">>}, has_data : BOOLEAN]

\* What a send_raw may return: the reply, or one of its errors.
SendRawOutcomes == RetryReplies \cup (RetryFailures \ {Result("Other", <<>>, "Connection timeout"), Result("Other", <<>>, "WebSocket connect failed")})

\* What DeviceConnection::connect may return besides the connection.
ConnectFailures == {Result("Other", <<>>, "Connection timeout"), Result("Other", <<>>, "WebSocket connect failed")}

\* The wrong handling of a send_raw result: the error is dropped and the
\* function goes on.
question_mark_ignored(result) == "continue"

\* The ? after send_raw(..).await: an Err returns from the function.
question_mark(result) == IF result.kind = "Ok" THEN "continue" ELSE "return"

\* The final command of the function.
save_command ==
    IF apply_fn = "upload_preset_to_device" /\ apply_preset.preset_type = "Full"
    THEN save_config_as(apply_preset.name)
    ELSE save_config

\* upload_preset_to_device: the parameters come from the data of the preset's
\* type; without that data the function returns before it connects.
ApplyParams ==
    /\ apply_pc = "params"
    /\ IF apply_preset.has_data
       THEN /\ apply_pc' = "connect"
            /\ UNCHANGED apply_result
       ELSE /\ apply_pc' = "done"
            /\ apply_result' = Result("Other", <<>>, "Preset has no data")
    /\ UNCHANGED <<now, apply_fn, apply_preset, apply_params, apply_k, apply_sent, apply_rest>>

\* DeviceConnection::connect(ip, timeout).await?
ApplyConnect ==
    /\ apply_pc = "connect"
    /\ \/ /\ apply_pc' = IF apply_params = <<>> THEN "save" ELSE "write"
          /\ UNCHANGED apply_result
       \/ \E failure \in ConnectFailures :
             /\ apply_pc' = "done"
             /\ apply_result' = failure
    /\ UNCHANGED <<now, apply_fn, apply_preset, apply_params, apply_k, apply_sent, apply_rest>>

\* One turn of the loop: conn.send_raw(&Commands::write_param(..)).await?
ApplyWrite ==
    /\ apply_pc = "write"
    /\ \E result \in SendRawOutcomes :
          /\ apply_sent' = Append(apply_sent,
                [cmd |-> write_param(apply_params[apply_k + 1].group,
                                     apply_params[apply_k + 1].name,
                                     apply_params[apply_k + 1].value),
                 result |-> result])
          /\ IF question_mark(result) = "continue"
             THEN /\ apply_k' = apply_k + 1
                  /\ apply_pc' = IF apply_k + 1 = Len(apply_params) THEN "save" ELSE "write"
                  /\ UNCHANGED apply_result
             ELSE /\ apply_pc' = "done"
                  /\ apply_result' = result
                  /\ UNCHANGED apply_k
    /\ UNCHANGED <<now, apply_fn, apply_preset, apply_params, apply_rest>>

\* conn.send_raw(save command).await?; Ok(())
ApplySave ==
    /\ apply_pc = "save"
    /\ \E result \in SendRawOutcomes :
          /\ apply_sent' = Append(apply_sent, [cmd |-> save_command, result |-> result])
          /\ apply_result' = IF question_mark(result) = "continue"
                             THEN Result("Ok", <<>>, "") ELSE result
    /\ apply_pc' = "done"
    /\ UNCHANGED <<now, apply_fn, apply_preset, apply_params, apply_k, apply_rest>>

InitApply ==
    /\ now = 0
    /\ WatchIdle /\ ParseIdle /\ OnceIdle /\ CmdIdle /\ ClsIdle /\ RetryIdle /\ BatchIdle
    /\ ExtIdleBut("apply")
    /\ apply_fn \in {"apply_config_to_device", "upload_preset_to_device"}
    /\ apply_preset \in IF apply_fn = "upload_preset_to_device" THEN Presets ELSE {<<>>}
    /\ apply_params \in {ParamList(n) : n \in 0..MaxParams}
    /\ apply_pc = IF apply_fn = "upload_preset_to_device" THEN "params" ELSE "connect"
    /\ apply_k = 0
    /\ apply_sent = <<>>
    /\ apply_result = Pending

NextApply == ApplyParams \/ ApplyConnect \/ ApplyWrite \/ ApplySave

SpecApply == InitApply /\ [][NextApply]_vars

(***************************************************************************)
(* The desktop backend: DiscoveryService::run of src-tauri, which copies   *)
(* its registry into AppState.devices whenever it emits an update, and the *)
(* commands get_devices, get_device and clear_devices on that shared map.  *)
(* Every access to the shared map is under its RwLock, so each is a step;  *)
(* the registry belongs to the service alone, so the receive, the upsert   *)
(* and the prune of an iteration are one step with the locked write.       *)
(***************************************************************************)
\* *state = self.devices.iter().map(|(ip, (dev, _))| (ip.clone(), dev.clone())).collect()
replace_state_extend(state, registry) ==
    [ip \in DOMAIN state \cup DOMAIN registry |->
        IF ip \in DOMAIN registry THEN registry[ip].dev ELSE state[ip]]

replace_state(state, registry) == [ip \in DOMAIN registry |-> registry[ip].dev]

\* The desktop backend is followed until MaxDesktopTicks * Tick.
MaxDesktopTicks == 12

\* One iteration of the desktop service's loop.
DesktopIteration(recv, elapsed) ==
    /\ now + elapsed <= MaxDesktopTicks * Tick
    /\ RunStep(recv, elapsed)
    /\ shared_devices' = IF it'.update # None
                         THEN replace_state(shared_devices, devices')
                         ELSE shared_devices
    /\ shared_emitted' = IF it'.update # None THEN devices' ELSE shared_emitted
    /\ shared_last' = "run"
    /\ shared_ret' = <<>>
    /\ shared_before' = shared_devices
    /\ UNCHANGED shared_rest_but_watch

\* The desktop receive completes at once or as the timeout expires.
DesktopDelays == {0, RECEIVE_TIMEOUT}

DesktopRecvDatagram ==
    \E d \in DesktopDelays, ip \in Ips, data \in Heartbeats :
        DesktopIteration([kind |-> "datagram", src |-> ip, data |-> data], d)

DesktopRecvError ==
    \E d \in DesktopDelays :
        DesktopIteration([kind |-> "error", src |-> <<>>, data |-> NotJson], d)

DesktopRecvTimeout ==
    DesktopIteration([kind |-> "timeout", src |-> <<>>, data |-> NotJson], RECEIVE_TIMEOUT)

\* devices.values().cloned().collect()
get_devices(state) == {state[ip] : ip \in DOMAIN state}

\* devices.get(&ip).cloned()
get_device(state, ip) == IF ip \in DOMAIN state THEN Some(state[ip]) ELSE None

\* devices.clear()
clear_devices(state) == <<>>

DesktopCommand(name, ret, state) ==
    /\ run_pc = "loop"
    /\ shared_last' = name
    /\ shared_ret' = ret
    /\ shared_before' = shared_devices
    /\ shared_devices' = state
    /\ UNCHANGED <<now, shared_emitted, shared_rest>>

GetDevices == DesktopCommand("get_devices", get_devices(shared_devices), shared_devices)

GetDevice ==
    \E ip \in Ips :
        DesktopCommand("get_device", get_device(shared_devices, ip), shared_devices)

ClearDevices == DesktopCommand("clear_devices", <<>>, clear_devices(shared_devices))

InitDesktop ==
    now = 0 /\ WatchIdle /\ ParseIdle /\ OnceIdle /\ CmdIdle /\ ClsIdle /\ RetryIdle /\ BatchIdle /\ ExtIdle

NextDesktop ==
    \/ DesktopRecvDatagram \/ DesktopRecvError \/ DesktopRecvTimeout
    \/ GetDevices \/ GetDevice \/ ClearDevices

SpecDesktop == InitDesktop /\ [][NextDesktop]_vars

(***************************************************************************)
(* Claims about watch mode and the heartbeat codec                         *)
(***************************************************************************)
\* The age of an entry of the registry as the prune step of the last iteration saw it.
AgeAtPrune(ip) == now - it.after_upsert[ip].seen
Pruned == DOMAIN it.after_upsert \ DOMAIN devices
KeysOf(data) == IF data.wf /\ data.json.t = "obj" THEN DOMAIN data.json.m ELSE {}
UpdateIps == {it.update[1][i].ip : i \in 1..Len(it.update[1])}

\* C1: in watch mode a device not heard from for more than the TTL is removed by
\* the next prune step, that prune step comes at most one receive timeout after
\* the TTL expired, and the onUpdate call of the same iteration delivers a list
\* without the device.
C1_StaleRemovedAndReported ==
    it.recv # "none" =>
        /\ \A ip \in DOMAIN it.after_upsert :
              AgeAtPrune(ip) > DEVICE_TTL => ip \notin DOMAIN devices
        /\ \A ip \in DOMAIN it.after_upsert :
              AgeAtPrune(ip) - DEVICE_TTL <= RECEIVE_TIMEOUT
        /\ \A ip \in Pruned : it.update # None /\ ip \notin UpdateIps

C1_Witness ==
    /\ it.recv = "timeout"
    /\ \E ip \in Pruned : AgeAtPrune(ip) > DEVICE_TTL
    /\ it.update # None

\* C2 as stated: after prune_stale_devices every entry of age at most the TTL
\* (an age of exactly the TTL included) is still in the registry and every
\* entry older than the TTL is gone.
C2_KeptAtExactlyTtl ==
    it.recv # "none" =>
        \A ip \in DOMAIN it.after_upsert :
            /\ AgeAtPrune(ip) <= DEVICE_TTL => ip \in DOMAIN devices
            /\ AgeAtPrune(ip) > DEVICE_TTL => ip \notin DOMAIN devices

\* C2 amended: after prune_stale_devices every entry younger than the TTL is
\* still in the registry, unchanged, and every entry of age at least the TTL
\* (an age of exactly the TTL included) is gone; pruning adds nothing.
C2_PrunedFromTtlOn ==
    it.recv # "none" =>
        /\ DOMAIN devices \subseteq DOMAIN it.after_upsert
        /\ \A ip \in DOMAIN it.after_upsert :
              /\ AgeAtPrune(ip) < DEVICE_TTL =>
                    ip \in DOMAIN devices /\ devices[ip] = it.after_upsert[ip]
              /\ AgeAtPrune(ip) >= DEVICE_TTL => ip \notin DOMAIN devices

C2_Witness ==
    /\ it.recv # "none"
    /\ \E ip \in Pruned : AgeAtPrune(ip) = DEVICE_TTL
    /\ \E ip \in DOMAIN devices : AgeAtPrune(ip) < DEVICE_TTL

C4_ReplacedInFull ==
    (it.recv = "datagram" /\ it.parsed.ok) =>
        LET a == it.src IN
        /\ DOMAIN it.after_upsert = DOMAIN it.before \cup {a}
        /\ it.after_upsert[a].dev.ip = a
        /\ it.after_upsert[a].seen = now
        /\ \A k \in OptionalKeys \ KeysOf(it.data) :
              FieldOf(it.after_upsert[a].dev, k) = None
        /\ a \in DOMAIN devices /\ devices[a] = it.after_upsert[a]
        /\ \A b \in DOMAIN it.before \ {a} : it.after_upsert[b] = it.before[b]

C4_Witness ==
    /\ it.recv = "datagram" /\ it.parsed.ok
    /\ it.src \in DOMAIN it.before
    /\ it.before[it.src].dev.sending_pos = Some(TRUE)
    /\ "sending_pos" \notin KeysOf(it.data)
    /\ devices[it.src].dev.sending_pos = None
    /\ Cardinality(DOMAIN it.before) = 2

\* C5: parse_heartbeat returns a decode error exactly for a payload that is no
\* JSON; for a JSON payload it returns a Device whose optional telemetry fields
\* missing from the payload are None and whose missing required fields take
\* their defaults.
C5_PermissiveDecoding ==
    hb_out # None =>
        LET r == hb_out[1]
            keys == KeysOf(hb_in.data)
        IN /\ r.ok <=> hb_in.data.wf
           /\ r.ok =>
                /\ \A k \in OptionalKeys \ keys : FieldOf(r.val, k) = None
                /\ "id" \notin keys => r.val.id = ""
                /\ "mac" \notin keys => r.val.mac = ""
                /\ "fw" \notin keys => r.val.firmware = ""
                /\ "uwb_short" \notin keys => r.val.uwb_short = "0"
                /\ "mav_sysid" \notin keys => r.val.mav_sys_id = 0
                /\ "role" \notin keys => r.val.role = "Unknown"
                /\ r.val.ip = hb_in.ip

C5_Witness ==
    /\ hb_out # None /\ hb_out[1].ok
    /\ KeysOf(hb_in.data) = {"id", "anchors_seen"}
    /\ hb_out[1].val.sending_pos = None
    /\ hb_out[1].val.anchors_seen = Some(300 % 256)
    /\ hb_out[1].val.role = "Unknown"

\* C6: neither a socket receive error nor a heartbeat decode error ends run or
\* is returned to its caller: the iteration still prunes (no entry of age TTL or
\* more is left) and the loop is at its next receive.
C6_ErrorsStayInLoop ==
    /\ run_pc = "loop"
    /\ (it.recv = "error" \/ (it.recv = "datagram" /\ ~it.parsed.ok)) =>
          /\ it.after_upsert = it.before
          /\ \A ip \in DOMAIN devices : now - devices[ip].seen < DEVICE_TTL

C6_Witness ==
    /\ run_pc = "loop"
    /\ \/ it.recv = "error"
       \/ it.recv = "datagram" /\ ~it.parsed.ok
    /\ Pruned # {}
    /\ devices # <<>>

(***************************************************************************)
(* Claims about snapshot mode                                              *)
(***************************************************************************)
\* The positions in once_log of the decodable heartbeats of ip.
ValidFrom(ip) ==
    {i \in 1..Len(once_log) : once_log[i].src = ip /\ once_log[i].data.wf}
HeardIps == {ip \in Ips : ValidFrom(ip) # {}}
LastValid(ip) == once_log[CHOOSE i \in ValidFrom(ip) : \A j \in ValidFrom(ip) : j <= i]

\* C7: discover_once returns once the duration has elapsed, at most one 500 ms
\* receive timeout later, with one Device per source IP that sent a valid
\* heartbeat in the window, holding the most recent heartbeat of that IP, sorted
\* ascending by IP; nothing inserted in the window is evicted before the return.
C7_SnapshotOfWindow ==
    /\ once_pc = "loop" => now < once_duration + recv_timeout
    /\ DOMAIN once_devices = HeardIps
    /\ once_pc = "returned" =>
          LET list == once_result[1] IN
          /\ now >= once_duration
          /\ now - once_duration <= recv_timeout
          /\ {list[i].ip : i \in 1..Len(list)} = HeardIps
          /\ \A i, j \in 1..Len(list) : i < j => StrLess(list[i].ip, list[j].ip)
          /\ \A i \in 1..Len(list) :
                LET hb == LastValid(list[i].ip)
                IN list[i] = parse_heartbeat(hb.data, hb.src, hb.at).val

C7_Witness ==
    /\ once_pc = "returned"
    /\ Len(once_result[1]) = 2
    /\ now > once_duration
    /\ \E ip \in Ips : \E i, j \in ValidFrom(ip) :
          i < j /\ once_log[i].data # once_log[j].data

(***************************************************************************)
(* Claims about the command channel                                        *)
(***************************************************************************)
LastFrame == cmd_frames[Len(cmd_frames)]
Answered == cmd_pc = "done" /\ cmd_frames # <<>> /\ LastFrame.t = "text"

\* C8: the reply of a sent command is the first text frame received; binary,
\* ping and pong frames before it are skipped and never returned as the reply;
\* a close frame or the end of the stream before any text frame gives the
\* InvalidResponse error "No response received"; a transport error gives an
\* error at once.
C8_FirstTextFrameIsReply ==
    /\ \A i \in 1..Len(cmd_frames) :
          \/ cmd_frames[i].t \in {"binary", "ping", "pong"}
          \/ i = Len(cmd_frames) /\ cmd_pc = "done"
    /\ cmd_result.kind \in {"Ok", "CommandFailed"} => Answered
    /\ (cmd_pc = "done" /\ cmd_frames # <<>>) =>
          /\ LastFrame.t = "text" =>
                /\ cmd_result.kind \in {"Ok", "CommandFailed", "panic"}
                /\ cmd_result.kind = "Ok" => cmd_result.text = LastFrame.text
          /\ LastFrame.t \in {"close", "end"} =>
                cmd_result = Result("InvalidResponse", <<>>, "No response received")
          /\ LastFrame.t = "error" => cmd_result = Result("Other", <<>>, "WebSocket error")
          /\ LastFrame.t \in {"binary", "ping", "pong"} =>
                cmd_result = Result("Other", <<>>, "timed out")

C8_Witness ==
    /\ Answered
    /\ Len(cmd_frames) = 3
    /\ cmd_frames[1].t = "binary"
    /\ cmd_frames[2].t = "ping"
    /\ cmd_result = Result("Ok", <<"O", "K">>, "")

\* C9: send_command and send_raw return Ok(reply) only for a reply the
\* classifier does not mark, and a reply the classifier marks as an error is
\* returned as CommandFailed with the extracted message.
C9_OkOnlyIfNotError ==
    /\ cmd_result.kind = "Ok" => is_error_response(cmd_result.text) = Classified(None)
    /\ Answered =>
          LET c == is_error_response(LastFrame.text) IN
          (~c.panic /\ c.res # None) => cmd_result = Result("CommandFailed", c.res[1], "")

C9_Witness ==
    /\ Answered
    /\ LastFrame.text = <<"f", "a", "i", "l">> \o <<" ", "b", "a", "d">>
    /\ cmd_result = Result("CommandFailed", <<"f", "a", "i", "l", " ", "b", "a", "d">>, "")

\* The positions of the reply at which the marker "error:" stands, whatever its case.
MarkerAt(r) ==
    {i \in 0..(Len(r) - 6) : to_lowercase(SubSeq(r, i + 1, i + 6)) = <<"e", "r", "r", "o", "r", ":">>}
AfterFirstMarker(r) == trim(Drop(r, 6 + CHOOSE h \in MarkerAt(r) : \A g \in MarkerAt(r) : h <= g))

\* C10: whenever the lowercased reply contains "error:" the reply is an error
\* whose message is the text after the first such marker, trimmed, whether or
\* not the reply also contains "success" or a JSON payload.
C10_MarkerGivesTextAfterIt ==
    (Answered /\ contains(to_lowercase(LastFrame.text), <<"e", "r", "r", "o", "r", ":">>)) =>
        cmd_result = Result("CommandFailed", AfterFirstMarker(LastFrame.text), "")

(***************************************************************************)
(* Claims about reply processing                                           *)
(***************************************************************************)
HasMarker(r) == contains(to_lowercase(r), <<"e", "r", "r", "o", "r", ":">>)
HasKeyword(r) ==
    \E kw \in {<<"e", "r", "r", "o", "r">>, <<"f", "a", "i", "l">>, <<"i", "n", "v", "a", "l", "i", "d">>, <<"n", "o", "t", " ", "f", "o", "u", "n", "d">>} : contains(to_lowercase(r), kw)
HasSuccess(r) == contains(to_lowercase(r), <<"s", "u", "c", "c", "e", "s", "s">>)
Braced(r) == \E i \in 1..Len(r) : r[i] \in {"{", "["}

\* The text from the earliest '{' or '[' to the end of the reply.
FirstBrace(r) == CHOOSE i \in 1..Len(r) : r[i] \in {"{", "["} /\ \A j \in 1..(i - 1) : r[j] \notin {"{", "["}
Payload(r) == SubSeq(r, FirstBrace(r), Len(r))

\* What the JSON of a reply says: success is the boolean false, or there is an error member.
SuccessFalse(p) == p.ok /\ get(p.val, <<"s", "u", "c", "c", "e", "s", "s">>) = Some(JBool(FALSE))
HasError(p) == p.ok /\ get(p.val, <<"e", "r", "r", "o", "r">>) # None
JsonSaysError(r) == Braced(r) /\ (SuccessFalse(from_str(Payload(r))) \/ HasError(from_str(Payload(r))))

C11_Rule(r, c) ==
    /\ ~c.panic
    /\ (HasKeyword(r) /\ ~HasSuccess(r)) => c.res = Some(trim(r))
    /\ (HasSuccess(r) /\ ~Braced(r)) => c.res = None
    /\ (HasSuccess(r) /\ c.res # None) => JsonSaysError(r)

\* C11: a reply without the "error:" marker whose lowercase form holds "error",
\* "fail", "invalid" or "not found" and not "success" is an error whose message
\* is the whole trimmed reply, whatever JSON it holds; a reply that holds
\* "success" is never made an error by a keyword (only by its JSON).
C11_KeywordRule ==
    (cls_error # None /\ ~HasMarker(cls_reply)) => C11_Rule(cls_reply, cls_error[1])

C11_Witness ==
    /\ cls_reply = <<"{", "\"", "e", "r", "r", "o", "r", "\"", ":", "\"", "e", "\"", "}">> \o <<" ">>
    /\ cls_error = Some(Classified(Some(<<"{", "\"", "e", "r", "r", "o", "r", "\"", ":", "\"", "e", "\"", "}">>)))

\* The JSON of a reply: the parse of its payload, an error when it has none.
PayloadJson(r) == IF Braced(r) THEN from_str(Payload(r)) ELSE Err("no JSON")
\* A member of the JSON that is a string.
StrField(p, name) ==
    IF p.ok /\ get(p.val, name) # None /\ get(p.val, name)[1].t = "str"
    THEN Some(get(p.val, name)[1].s) ELSE None
NoField(p, name) == p.ok /\ get(p.val, name) = None

C12_Rule(c, p) ==
    /\ ~c.panic
    /\ c.res # None <=> (SuccessFalse(p) \/ HasError(p))
    /\ (SuccessFalse(p) /\ StrField(p, <<"m", "e", "s", "s", "a", "g", "e">>) # None) => c.res = StrField(p, <<"m", "e", "s", "s", "a", "g", "e">>)
    /\ (SuccessFalse(p) /\ NoField(p, <<"m", "e", "s", "s", "a", "g", "e">>) /\ StrField(p, <<"e", "r", "r", "o", "r">>) # None) =>
          c.res = StrField(p, <<"e", "r", "r", "o", "r">>)
    /\ (SuccessFalse(p) /\ NoField(p, <<"m", "e", "s", "s", "a", "g", "e">>) /\ NoField(p, <<"e", "r", "r", "o", "r">>)) =>
          c.res = Some(<<"C", "o", "m", "m", "a", "n", "d", " ", "f", "a", "i", "l", "e", "d">>)

C13_Rule(r, j, p) ==
    /\ ~Braced(r) => j = Err("No JSON found in response")
    /\ (Braced(r) /\ p.ok) => j = Ok(p.val)
    /\ (Braced(r) /\ ~p.ok) => j = Err("Failed to parse JSON")

C14_Rule(cmd, r, resp, p) ==
    resp.ok =>
        /\ resp.val.json # None =>
              (is_json_command(cmd) /\ p.ok /\ resp.val.json = Some(p.val))
        /\ ~is_json_command(cmd) => (resp.val.json = None /\ resp.val.raw = r)

\* C14: the response of send / send_command_parsed carries json only when the
\* command starts with an entry of JSON_COMMANDS and the reply parsed as JSON; for
\* any other command json is absent and raw is the reply as received.
C14_JsonOnlyForJsonCommands ==
    cls_response # None =>
        C14_Rule(cls_command, cls_reply, cls_response[1], PayloadJson(cls_reply))

C14_Witness ==
    /\ cls_command = <<"s", "a", "v", "e", "-", "c", "o", "n", "f", "i", "g">>
    /\ cls_reply = <<"{", "\"", "s", "u", "c", "c", "e", "s", "s", "\"", ":", "0", "}">>
    /\ cls_response = Some(Ok(DeviceCommandResponse(cls_reply, None)))

(***************************************************************************)
(* Claims about send_command_with_retry                                    *)
(***************************************************************************)
Failed(e) == e.result.kind # "Ok"
RetryReturned == retry_pc = "done"

\* C15: send_command_with_retry makes at most max_retries + 1 sends; a success is
\* returned at once and is the last send made; when it returns an error every one
\* of exactly max_retries + 1 sends failed, whatever the kinds of the failures.
C15_AttemptsBounded ==
    /\ Len(retry_log) <= retry_max + 1
    /\ \A i \in 1..Len(retry_log) :
          ~Failed(retry_log[i]) =>
              (i = Len(retry_log) /\ RetryReturned /\ retry_result = retry_log[i].result)
    /\ (RetryReturned /\ retry_result.kind = "Ok") =>
          (retry_log # <<>> /\ retry_log[Len(retry_log)].result = retry_result)
    /\ (RetryReturned /\ retry_result.kind # "Ok") =>
          (Len(retry_log) = retry_max + 1 /\ \A i \in 1..Len(retry_log) : Failed(retry_log[i]))
    /\ (~RetryReturned) => \A i \in 1..Len(retry_log) : Failed(retry_log[i])

\* Every kind of failure was followed by another send, then a reply ended the call.
C15_Witness ==
    /\ retry_max = 2
    /\ RetryReturned
    /\ Len(retry_log) = 3
    /\ retry_log[1].result = Result("Other", <<>>, "Connection timeout")
    /\ retry_log[2].result.kind = "CommandFailed"
    /\ retry_result.kind = "Ok"

\* C16: when every attempt failed the error returned is that of the final attempt;
\* consecutive attempts are 500 ms apart, always, and the call returns at the end
\* of its last attempt without waiting.
C16_LastErrorFixedDelay ==
    /\ \A i \in 1..(Len(retry_log) - 1) :
          retry_log[i + 1].start - retry_log[i].end = RETRY_DELAY_MS
    /\ RetryReturned => (retry_log # <<>> /\ now = retry_log[Len(retry_log)].end)
    /\ (RetryReturned /\ retry_result.kind # "Ok") =>
          retry_result = retry_log[Len(retry_log)].result

C16_Witness ==
    /\ retry_max = 2
    /\ RetryReturned
    /\ Len(retry_log) = 3
    /\ retry_log[1].result = Result("Other", <<>>, "timed out")
    /\ retry_log[2].result = Result("Other", <<>>, "WebSocket error")
    /\ retry_result = Result("InvalidResponse", <<>>, "No response received")
    /\ now = 20 + 500 + 700 + 500 + 20

(***************************************************************************)
(* Claims about bulk operations                                            *)
(***************************************************************************)
Events(ev) == {k \in 1..Len(batch_log) : batch_log[k].ev = ev}
Started == {batch_log[k].idx : k \in Events("start")}
Completed == {batch_log[k].idx : k \in Events("done")}
ClientFailed == Events("client_error") # {}
BatchReturned == batch_pc = "returned"
Positions == 1..Len(batch_ips)

\* How often an address occurs in the input and in the result list.
InputCount(ip) == Cardinality({k \in Positions : batch_ips[k] = ip})
ResultCount(ip) == Cardinality({k \in 1..Len(batch_results) : batch_results[k].ip = ip})

\* The positions of the input in the order their operations completed.
RECURSIVE DoneOrder(_)
DoneOrder(n) ==
    IF n = 0 THEN <<>>
    ELSE IF batch_log[n].ev = "done" THEN Append(DoneOrder(n - 1), batch_log[n].idx)
    ELSE DoneOrder(n - 1)

\* C17: in send_to_all and upload_firmware_bulk the operations started and not yet
\* completed never outnumber the ceiling the caller gave, a ceiling of 0 counting
\* as 1: with 0 an operation still starts whenever none is running and ips remain.
C17_InFlightWithinCeiling ==
    /\ Cardinality(Started \ Completed) <= (IF batch_ceiling = 0 THEN 1 ELSE batch_ceiling)
    /\ (batch_pc = "run" /\ batch_next < Len(batch_ips) /\ Started = Completed)
          => ENABLED BatchStart

C17_Witness ==
    /\ batch_fn = "upload_firmware_bulk"
    /\ batch_ceiling = 0
    /\ Cardinality(Started \ Completed) = 1
    /\ Len(batch_results) = 2

\* C18: both functions return only once every operation has completed, with one
\* (ip, result) entry per element of ips: every address occurs in the result as
\* often as in the input, and the entries are in the order of completion.
C18_OneEntryPerInput ==
    BatchReturned =>
        /\ Started = Completed
        /\ ~ClientFailed => Completed = Positions
        /\ Len(batch_results) = Len(batch_ips)
        /\ \A k \in Positions : ResultCount(batch_ips[k]) = InputCount(batch_ips[k])
        /\ ~ClientFailed =>
              \A k \in Positions : batch_results[k].ip = batch_ips[DoneOrder(Len(batch_log))[k]]

\* Three inputs with a repeated address, completed in another order than given.
C18_Witness ==
    /\ BatchReturned
    /\ batch_ips = <<Ip(1), Ip(2), Ip(1)>>
    /\ DoneOrder(Len(batch_log)) = <<2, 3, 1>>
    /\ batch_results[1].ip = Ip(2)

\* What the operation on an address comes to when it is the only one.
Alone(ip) == IF batch_fate[ip] = "ok" THEN Ok("done") ELSE Err("operation failed")

\* C19: a failing operation leaves the others alone: every collected result is the
\* one its address gets by itself, the batch never stops before it returns, and at
\* the return every input position has been started.
C19_FailureIndependent ==
    /\ ~ClientFailed =>
          \A k \in 1..Len(batch_results) : batch_results[k].result = Alone(batch_results[k].ip)
    /\ batch_pc = "run" => ENABLED (BatchStart \/ BatchComplete \/ BatchReturn)
    /\ (BatchReturned /\ ~ClientFailed) => Started = Positions

\* 5 IPs, concurrency 2, one device failing first: 5 results, exactly 1 failed.
C19_Witness ==
    /\ batch_fn = "send_to_all"
    /\ BatchReturned
    /\ batch_ips = IpPrefix(5)
    /\ batch_ceiling = 2
    /\ Len(batch_results) = 5
    /\ ~batch_results[1].result.ok
    /\ Cardinality({k \in 1..5 : ~batch_results[k].result.ok}) = 1

\* C20: when upload_firmware_bulk cannot build its HTTP client it returns one
\* failed entry for every input IP, all with the same error text, and no
\* operation on any device is started.
C20_ClientFailureFailsAll ==
    ClientFailed =>
        /\ batch_fn = "upload_firmware_bulk"
        /\ BatchReturned
        /\ Started = {}
        /\ Len(batch_results) = Len(batch_ips)
        /\ \A k \in Positions : ResultCount(batch_ips[k]) = InputCount(batch_ips[k])
        /\ \A k \in 1..Len(batch_results) : ~batch_results[k].result.ok
        /\ \A j, k \in 1..Len(batch_results) : batch_results[j].result = batch_results[k].result

C20_Witness ==
    /\ ClientFailed
    /\ batch_ips = Append(IpPrefix(4), Ip(1))
    /\ Len(batch_results) = 5
    /\ batch_results[5] = Entry(Ip(1), Err("HTTP client error"))

(***************************************************************************)
(* Claims about firmware upload                                            *)
(***************************************************************************)
\* The request of the call, and whether it completed with a 2xx status.
Sent == call_args.sent
Completed2xx == Sent.ok /\ Sent.val.status \in 200..299

\* C21: an upload to one device succeeds exactly when its request completes with a
\* 2xx status; a response with any other status gives OtaFailed with that status
\* and the body as far as it could be read, an uncompleted request an Other error.
C21_SuccessIff2xx ==
    call_ret # None =>
        /\ call_ret[1].ok <=> Completed2xx
        /\ (Sent.ok /\ ~Completed2xx) =>
              /\ call_ret[1].err.kind = "OtaFailed"
              /\ call_ret[1].err.ip = call_args.ip
              /\ call_ret[1].err.message[2] = Sent.val.status
              /\ call_ret[1].err.message[4] = (IF Sent.val.readable THEN Sent.val.body ELSE <<>>)
        /\ ~Sent.ok => call_ret[1].err.kind = "Other"

C21_Witness ==
    /\ call_fn = "upload_firmware_data"
    /\ Sent = Ok(HttpResponse(304, <<"U", "p", "d", "a", "t", "e", " ", "f", "a", "i", "l", "e", "d">>, TRUE))
    /\ call_ret = Some(Err(OtaFailed(call_args.ip, 304, <<"U", "p", "d", "a", "t", "e", " ", "f", "a", "i", "l", "e", "d">>)))

(***************************************************************************)
(* Claims about the persistent connection                                  *)
(***************************************************************************)
\* Positions of the log where command k was sent, and where its outcome was observed.
SentAt(k) == {p \in 1..Len(conn_log) : conn_log[p].ev = "sent" /\ conn_log[p].k = k}
ObservedAt(k) == {p \in 1..Len(conn_log) : conn_log[p].ev = "observed" /\ conn_log[p].k = k}

\* The device wrote no text frame but its one answer to each command.
OneTextFramePerCommand ==
    \A p \in 1..Len(conn_log) :
        (conn_log[p].ev = "frame" /\ conn_log[p].what = "text") => conn_log[p].k # 0

\* C22: on a persistent connection command k+1 is sent only after the reply, error
\* or timeout of command k was observed, and when the device writes exactly one
\* text frame per command, response i of the returned list is the reply to command i.
C22_StrictlySequential ==
    /\ \A k \in 1..Len(conn_cmds) :
          /\ Cardinality(SentAt(k)) <= 1
          /\ \A p \in SentAt(k) :
                k > 1 => \E q \in ObservedAt(k - 1) : q < p
    /\ (conn_result # None /\ conn_result[1].ok /\ OneTextFramePerCommand) =>
          /\ Len(conn_result[1].val) = Len(conn_cmds)
          /\ \A i \in 1..Len(conn_cmds) :
                conn_result[1].val[i].raw = DeviceReply(conn_cmds[i], i, "ok")

\* Three commands answered in turn, a ping in between, three responses returned.
C22_Witness ==
    /\ conn_fn = "send_device_commands"
    /\ Len(conn_cmds) = 3
    /\ conn_result # None
    /\ conn_result[1].ok
    /\ Len(conn_result[1].val) = 3
    /\ conn_result[1].val[3].raw = DeviceReply(conn_cmds[3], 3, "ok")
    /\ \E p \in 1..Len(conn_log) : conn_log[p].ev = "frame" /\ conn_log[p].what = "ping"

(***************************************************************************)
(* Claims about the status of a bulk command                               *)
(***************************************************************************)
Outcomes == call_args.results
SomeFailed == \E k \in 1..Len(Outcomes) : Outcomes[k] # "ok"
SomeSucceeded == \E k \in 1..Len(Outcomes) : Outcomes[k] = "ok"
EndsPartialFailure == ~call_ret[1].result.ok /\ call_ret[1].code = PARTIAL_FAILURE

\* C23: a bulk operation ends with the status "partial failure" exactly when at
\* least one device failed and at least one succeeded; when every device failed
\* the status differs from partial failure, when none failed it is success.
C23_PartialIffMixed ==
    (call_fn \in {"run_bulk_command", "run_update"} /\ call_ret # None /\ Outcomes # <<>>) =>
        /\ EndsPartialFailure <=> (SomeFailed /\ SomeSucceeded)
        /\ ~SomeFailed => call_ret[1].code = SUCCESS

(***************************************************************************)
(* Claims about command construction                                       *)
(***************************************************************************)
\* The value with every backslash and every quote preceded by one backslash.
RECURSIVE EscapedOnce(_)
EscapedOnce(v) ==
    IF v = <<>> THEN <<>>
    ELSE (IF v[1] \in {"\\", "\""} THEN <<"\\", v[1]>> ELSE <<v[1]>>) \o EscapedOnce(Tail(v))

\* The number of backslashes that end the first n characters of s.
RECURSIVE BackslashesBefore(_, _)
BackslashesBefore(s, n) ==
    IF n = 0 \/ s[n] # "\\" THEN 0 ELSE 1 + BackslashesBefore(s, n - 1)

\* Every quote of s follows an odd number of backslashes.
NoBareQuote(s) ==
    \A i \in 1..Len(s) : s[i] = "\"" => BackslashesBefore(s, i - 1) % 2 = 1

\* The command up to the quote that opens the value.
WriteHead == <<"w", "r", "i", "t", "e", " ", "-", "g", "r", "o", "u", "p", " ">> \o call_args.group \o <<" ", "-", "n", "a", "m", "e", " ">> \o call_args.name \o <<" ", "-", "d", "a", "t", "a", " ", "\"">>
ValuePart == SubSeq(call_ret[1], Len(WriteHead) + 1, Len(call_ret[1]) - 1)

\* C24: write_param puts the value between double quotes with every backslash
\* doubled and every quote preceded by one backslash that is not doubled in turn,
\* so the value part of the command has no unescaped quote.
C24_EscapedOnce ==
    (call_fn = "write_param" /\ call_ret # None) =>
        /\ call_ret[1] = WriteHead \o EscapedOnce(call_args.value) \o <<"\"">>
        /\ NoBareQuote(ValuePart)

C24_Witness ==
    /\ call_fn = "write_param"
    /\ call_args.value = <<"\\", "\"", "a">>
    /\ call_ret # None
    /\ ValuePart = <<"\\", "\\", "\\", "\"", "a">>

(***************************************************************************)
(* Claims about the kinds of command errors                                *)
(***************************************************************************)
\* What made a send_command fail, from the message of its error.
IsTimeout(r) == r.what \in {"Connection timeout", "timed out"}
IsTransport(r) == r.what \in {"WebSocket connect failed", "WebSocket send error", "WebSocket error"}
IsDeviceReported(r) == r.kind = "CommandFailed"

\* The exit code of the CLI for an error of send_command: CliError::Core(e).
CliExit(r) ==
    exit_code([kind |-> "Core", core |-> IF r.kind = "Other" THEN "Other" ELSE "Device"])

\* C25: a connect or response timeout of a command is an error of another kind
\* than a device-reported failure and than a transport failure, and the CLI
\* exits with another code for it.
C25_TimeoutDistinctInKind ==
    \A i, j \in 1..Len(retry_log) :
        (IsTimeout(retry_log[i].result)
            /\ (IsTransport(retry_log[j].result) \/ IsDeviceReported(retry_log[j].result)))
        => /\ retry_log[i].result.kind # retry_log[j].result.kind
           /\ CliExit(retry_log[i].result) # CliExit(retry_log[j].result)

(***************************************************************************)
(* Claims about the duration of a command                                  *)
(***************************************************************************)
\* C26: a one-shot command has returned once the connect timeout plus the
\* response timeout have passed, whatever the device does: the clock never
\* passes that instant while the command still waits.
C26_EndsWithinTimeouts ==
    shot_pc # "done" => now <= Deadline(shot_fn, shot_timeout)

(***************************************************************************)
(* Claims about the discovery port                                         *)
(***************************************************************************)
\* C27: the discovery listeners (the CLI's and the desktop backend's) can be
\* bound to the discovery port at the same time, whichever starts first:
\* every listener sets the address-reuse and port-reuse options before it
\* binds, so no bind beside other discovery listeners fails.
C27_ListenersShareThePort ==
    \A k \in 1..Len(sock_log) :
        /\ sock_log[k].socket.reuse_address
        /\ sock_log[k].socket.reuse_port
        /\ sock_log[k].ok

(***************************************************************************)
(* Claims about the log buffers                                            *)
(***************************************************************************)
Min(a, b) == IF a < b THEN a ELSE b

\* The last Min(n, MAX_LOGS_PER_DEVICE) of the n messages a device has sent,
\* in the order of their arrival.
MostRecent(device_ip, n) ==
    [k \in 1..Min(n, MAX_LOGS_PER_DEVICE) |->
        LogMessage(device_ip, n - Min(n, MAX_LOGS_PER_DEVICE) + k)]

\* C28: after any sequence of add_log calls the buffer of every device holds
\* the most recent min(n, 500) of the n messages added for it, in arrival
\* order (so at most 500, and whatever was added for the other devices).
C28_BufferIsMostRecent ==
    \A device_ip \in LogIps :
        get_logs(log_buffers, device_ip) = MostRecent(device_ip, SentBy(device_ip))

C28_Witness ==
    \E a, b \in LogIps :
        /\ a # b
        /\ SentBy(a) > MAX_LOGS_PER_DEVICE
        /\ SentBy(b) > 0
        /\ Len(get_logs(log_buffers, a)) = MAX_LOGS_PER_DEVICE
        /\ get_logs(log_buffers, a)[1].ts > 1

(***************************************************************************)
(* Claims about the watch loop's notifications                             *)
(***************************************************************************)
\* The last iteration of run received a datagram that parse_heartbeat
\* rejected.
Undecodable == it.recv = "datagram" /\ ~it.parsed.ok

\* C29: a received datagram that fails heartbeat decoding is dropped
\* silently: the registry (devices and last-seen times) is unchanged by it,
\* and the iteration notifies (onUpdate, devices-updated) only if its pruning
\* removed a device.
C29_UndecodableDroppedSilently ==
    Undecodable =>
        /\ it.after_upsert = it.before
        /\ it.update # None => it.before_prune # it.after_prune

(***************************************************************************)
(* Claims about the upload callbacks                                       *)
(***************************************************************************)
IsCallFor(ip, call) == call.ip = ip

\* The calls the handler got for one address, in order.
CallsFor(ip) == SelectSeq(ota_calls, LAMBDA call : IsCallFor(ip, call))

CountOf(fn, ip) ==
    Cardinality({k \in 1..Len(ota_calls) : ota_calls[k].fn = fn /\ ota_calls[k].ip = ip})

OkResults(ip) ==
    Cardinality({k \in 1..Len(batch_results) :
                    batch_results[k].ip = ip /\ batch_results[k].result.ok})

\* What the handler may have been told about an address given once, at any
\* moment: nothing, the start, the start and the success, or the start and
\* the failure.
CallOrders(ip) ==
    {<<>>,
     <<on_progress(ip, 0, ota_total)>>,
     <<on_progress(ip, 0, ota_total), on_progress(ip, ota_total, ota_total), on_complete(ip)>>}
    \cup {<<on_progress(ip, 0, ota_total), on_error(ip, msg)>> :
             msg \in {"operation failed"}}

\* C30: in upload_firmware_bulk with a constructed client the handler is told,
\* for each address, on_progress(ip, 0, total) before the upload, then either
\* on_progress(ip, total, total) and on_complete(ip), or on_error(ip, message);
\* at the return each input has had exactly one of on_complete and on_error,
\* on_complete exactly for the results that are Ok.
C30_CallbackOrder ==
    batch_fn = "upload_firmware_bulk" /\ ~ClientFailed =>
        \A ip \in {batch_ips[k] : k \in Positions} :
            /\ InputCount(ip) = 1 => CallsFor(ip) \in CallOrders(ip)
            /\ BatchReturned =>
                  /\ CountOf("on_complete", ip) + CountOf("on_error", ip) = InputCount(ip)
                  /\ CountOf("on_complete", ip) = OkResults(ip)

C30_Witness ==
    /\ batch_fn = "upload_firmware_bulk"
    /\ BatchReturned
    /\ ~ClientFailed
    /\ ota_total > 0
    /\ \E a, b \in {batch_ips[k] : k \in Positions} :
          /\ CountOf("on_complete", a) = 1
          /\ CountOf("on_error", b) = 1
          /\ InputCount(a) = 1
          /\ InputCount(b) = 1

(***************************************************************************)
(* Claims about the log stream                                             *)
(***************************************************************************)
\* The positions of the start and stop commands of a device before
\* position k of the log.
CommandsBefore(ip, k) ==
    {j \in 1..(k - 1) : stream_log[j].ip = ip /\ stream_log[j].ev \in {"start", "stop"}}

\* The device's stream was started and not stopped since, at position k.
ActiveAt(ip, k) ==
    \E j \in CommandsBefore(ip, k) :
        /\ stream_log[j].ev = "start"
        /\ \A i \in CommandsBefore(ip, k) : i <= j

\* C31: the receiver buffers every well-formed log message, and a device-log
\* event is emitted for a device only while its stream is active: once
\* stop_log_stream(D) has completed there is no event for D before a later
\* start_log_stream(D), however the receiver and the commands interleave.
C31_EmitOnlyWhileActive ==
    \A k \in 1..Len(stream_log) :
        /\ stream_log[k].ev = "log" =>
              LogMessage(stream_log[k].ip, stream_log[k].ts)
                  \in {get_logs(log_buffers, stream_log[k].ip)[j] :
                          j \in 1..Len(get_logs(log_buffers, stream_log[k].ip))}
        /\ stream_log[k].ev = "device-log" => ActiveAt(stream_log[k].ip, k)

(***************************************************************************)
(* Claims about device health                                              *)
(***************************************************************************)
Has(issues, issue) == \E k \in 1..Len(issues) : issues[k] = issue

\* The tests of the table on a device's telemetry.
NotSending(d) == d.sending_pos = Some(FALSE)
FewAnchors(d) == d.anchors_seen # None /\ d.anchors_seen[1] < 3
OriginNotSent(d) == d.origin_sent = Some(FALSE)
RangefinderUnhealthy(d) == d.rf_enabled = Some(TRUE) /\ d.rf_healthy = Some(FALSE)

\* The level the table gives a tag that reports telemetry.
TagLevel(d) ==
    IF NotSending(d) \/ FewAnchors(d) THEN "Degraded"
    ELSE IF OriginNotSent(d) \/ RangefinderUnhealthy(d) THEN "Warning"
    ELSE "Healthy"

WriteOf(k) == write_param(apply_params[k].group, apply_params[k].name, apply_params[k].value)

IsSave(cmd) == cmd = save_config \/ \E p \in Presets : cmd = save_config_as(p.name)

\* C33: over the one connection the write commands go out in parameter order
\* and the save command goes out only after every write succeeded: after the
\* first failed write (device error, timeout, transport error) nothing more
\* is sent and the function reports the failure.
C33_SaveOnlyAfterAllWrites ==
    \A k \in 1..Len(apply_sent) :
        /\ k <= Len(apply_params) => apply_sent[k].cmd = WriteOf(k)
        /\ k > Len(apply_params) =>
              /\ k = Len(apply_params) + 1
              /\ apply_sent[k].cmd = save_command
        /\ IsSave(apply_sent[k].cmd) =>
              /\ k = Len(apply_params) + 1
              /\ \A j \in 1..(k - 1) : apply_sent[j].result.kind = "Ok"
        /\ apply_sent[k].result.kind # "Ok" =>
              /\ k = Len(apply_sent)
              /\ apply_pc = "done"
              /\ apply_result = apply_sent[k].result

C33_Witness ==
    /\ Len(apply_params) = 2
    /\ Len(apply_sent) = 2
    /\ apply_sent[1].result.kind = "Ok"
    /\ apply_sent[2].result.what = "timed out"
    /\ apply_pc = "done"
    /\ apply_result.kind = "Other"

(***************************************************************************)
(* Claims about a failing command of a batch                               *)
(***************************************************************************)
\* The positions of the log where a command was seen to fail.
FailuresSeen ==
    {i \in 1..Len(conn_log) : conn_log[i].ev = "observed" /\ conn_log[i].what # "reply"}

\* The replies received before position i of the log.
RepliesBefore(i) ==
    Cardinality({j \in 1..(i - 1) : conn_log[j].ev = "observed" /\ conn_log[j].what = "reply"})

\* C34: send_batch and send_device_commands stop at the first failing command:
\* the call has returned an error and no reply, no later command was sent,
\* nothing is sent or read afterwards, and the error of send_device_commands
\* names the failing command by its 1-based index.
C34_StopsAtFirstFailure ==
    \A i \in FailuresSeen :
        /\ conn_log[i].k = RepliesBefore(i) + 1
        /\ conn_pc = "done"
        /\ conn_result # None
        /\ ~conn_result[1].ok
        /\ DOMAIN conn_result[1] = {"ok", "err"}
        /\ \A j \in 1..Len(conn_log) :
              /\ conn_log[j].ev = "sent" => conn_log[j].k <= conn_log[i].k
              /\ j > i => conn_log[j].ev \notin {"sent", "observed"}
        /\ conn_fn = "send_device_commands" =>
              /\ conn_result[1].err[1] = "Command "
              /\ conn_result[1].err[2] = conn_log[i].k
              /\ conn_result[1].err[3] = " failed: "

C34_Witness ==
    /\ conn_fn = "send_device_commands"
    /\ Len(conn_cmds) = 3
    /\ Len(conn_responses) = 1
    /\ \E i \in FailuresSeen : conn_log[i].k = 2
    /\ conn_result # None
    /\ conn_result[1].err[2] = 2

(***************************************************************************)
(* Claims about a JSON-class command answered without JSON                 *)
(***************************************************************************)
\* The messages of the DeviceError::InvalidResponse that parse_json_response
\* builds.
InvalidResponseMessages == {"No JSON found in response", "Failed to parse JSON"}

\* The reply passed the error classification and holds no JSON that parses.
AnsweredWithoutJson ==
    /\ is_json_command(cls_command)
    /\ check_reply(cls_reply).kind = "Ok"
    /\ ~PayloadJson(cls_reply).ok

\* C35: for a JSON-class command whose reply passes the error classification
\* but holds no parseable JSON (a plain OK), send and send_command_parsed
\* return an InvalidResponse error, not a response with json absent, although
\* the device answered the command.
C35_NoJsonIsInvalidResponse ==
    (cls_response # None /\ AnsweredWithoutJson) =>
        /\ ~cls_response[1].ok
        /\ cls_response[1].err \in InvalidResponseMessages

C35_Witness ==
    /\ cls_command = <<"l", "i", "s", "t", "-", "c", "o", "n", "f", "i", "g", "s">>
    /\ cls_reply = <<"O", "K">>
    /\ AnsweredWithoutJson
    /\ cls_response = Some(Err("No JSON found in response"))

(***************************************************************************)
(* Claims about the desktop backend's shared device map                    *)
(***************************************************************************)
\* The devices of a registry, without their last-seen times.
StateOf(registry) == [ip \in DOMAIN registry |-> registry[ip].dev]

\* The last step was an iteration of the discovery loop that emitted an update.
EmittedUpdate == shared_last = "run" /\ it.update # None

\* C36: whatever the interleaving of the discovery loop with get_devices,
\* get_device and clear_devices, the shared device map is either empty or
\* the service's registry as of its last emitted update; get_devices and
\* get_device leave it alone and return what it holds; clear_devices empties
\* it and leaves the service's registry as it was at that update, so that
\* after the next emitted update the shared map holds every device of the
\* registry again.
C36_SharedMapIsEmptyOrLastUpdate ==
    /\ shared_devices = <<>> \/ shared_devices = StateOf(shared_emitted)
    /\ shared_last = "get_devices" =>
           shared_devices = shared_before /\ shared_ret = get_devices(shared_before)
    /\ shared_last = "get_device" => shared_devices = shared_before
    /\ shared_last = "clear_devices" =>
           shared_devices = <<>> /\ devices = shared_emitted
    /\ EmittedUpdate =>
           /\ shared_emitted = devices
           /\ \A ip \in DOMAIN devices :
                  ip \in DOMAIN shared_devices /\ shared_devices[ip] = devices[ip].dev

\* An emitted update has put a device back into a shared map that
\* clear_devices had emptied while the registry still held that device.
C36_Witness ==
    /\ EmittedUpdate
    /\ shared_before = <<>>
    /\ \E ip \in DOMAIN it.before : ip \in DOMAIN shared_devices

(***************************************************************************)
(* Claims about the progress of the batch functions                        *)
(***************************************************************************)
\* The operation at position i of the input has been started.
StartedAt(i) == batch_next >= i

\* Every "done" of the log that left an input position unstarted is followed
\* by the "start" of the next position, before anything else completes.
SlotReused ==
    \A k \in 1..Len(batch_log) :
        (batch_log[k].ev = "done"
            /\ Cardinality({j \in 1..k : batch_log[j].ev = "start"}) < Len(batch_ips))
        => \/ k = Len(batch_log) /\ batch_pc = "run" /\ ENABLED BatchStart /\ ~ENABLED BatchComplete
           \/ k < Len(batch_log) /\ batch_log[k + 1].ev = "start"

\* C37: when every operation in flight eventually completes, send_to_all and
\* upload_firmware_bulk eventually return; once the stream of operations
\* runs, the operation of every input position is eventually started,
\* whatever the ceiling; and a completion, successful or failed, that
\* leaves positions unstarted is followed at once by the start of the next.
C37_BatchProgress ==
    /\ <>(batch_pc = "returned")
    /\ \A i \in 1..MaxIps :
           (batch_pc = "run" /\ i <= Len(batch_ips)) ~> StartedAt(i)
    /\ []SlotReused

\* Five inputs under a ceiling of 2: the call has returned with all five
\* started, and the slot of a failed operation went to the next position.
C37_Witness ==
    /\ batch_pc = "returned"
    /\ Len(batch_ips) = 5
    /\ batch_ceiling = 2
    /\ StartedAt(5)
    /\ \E k \in 1..(Len(batch_log) - 1) :
           /\ batch_log[k].ev = "done"
           /\ batch_fate[batch_ips[batch_log[k].idx]] = "failed"
           /\ batch_log[k + 1] = [ev |-> "start", idx |-> 3]

(***************************************************************************)
(* Claims about reading a write command back                               *)
(***************************************************************************)
\* The text between the quote that follows -data and the last quote.
QuotedPart(cmd, group, name) ==
    SubSeq(cmd, Len(write_param(group, name, <<>>)), Len(cmd) - 1)

\* Undoing the backslash escapes: a backslash stands for the character after it.
RECURSIVE Unescape(_)
Unescape(s) ==
    IF s = <<>> THEN <<>>
    ELSE IF s[1] = "\\" /\ Len(s) >= 2 THEN <<s[2]>> \o Unescape(SubSeq(s, 3, Len(s)))
    ELSE <<s[1]>> \o Unescape(Tail(s))

\* C38: the escaping of write_param can be undone and loses nothing: for every
\* value of backslashes, double quotes and other characters, undoing the
\* backslash escapes of the quoted part of the command gives the value back,
\* and no other value gives the same command for the same group and name.
C38_EscapingReversible ==
    (call_fn = "write_param" /\ call_ret # None) =>
        /\ Unescape(QuotedPart(call_ret[1], call_args.group, call_args.name)) = call_args.value
        /\ \A other \in Values(MaxValue) :
               other # call_args.value =>
                   write_param(call_args.group, call_args.name, other) # call_ret[1]

\* A value of a backslash, a quote and a backslash, read back from the six
\* characters it is written as.
C38_Witness ==
    /\ call_fn = "write_param"
    /\ call_ret # None
    /\ call_args.value = <<"\\", "\"", "\\">>
    /\ Len(QuotedPart(call_ret[1], call_args.group, call_args.name)) = 6
    /\ Unescape(QuotedPart(call_ret[1], call_args.group, call_args.name)) = call_args.value

====
